---- MODULE Spec2Model ----
(***************************************************************************)
(* A model of lilguy: the Runtime controller (src/runtime.rs), the request *)
(* handler of the serve loop (src/command/serve.rs), the change detector   *)
(* (src/watch.rs, src/reload.rs) and the persistent global store           *)
(* (src/database/global.rs).                                               *)
(*                                                                         *)
(* Four specifications share the module:                                   *)
(*   Spec           the runtime: start, serve, hot reload, shutdown, for a *)
(*                  project that is one script                             *)
(*   SpecTemplates  the same for a project with a script and a template    *)
(*   SpecWatch      the change detector alone                              *)
(*   SpecGlobal     the global store driven by a script                    *)
(***************************************************************************)
EXTENDS Integers, Sequences, FiniteSets, TLC

(***************************************************************************)
(* Bounds of the model.                                                    *)
(***************************************************************************)
\* concurrent HTTP requests in flight
NumRequests == 1
\* distinct byte contents a file can take: 1..MaxContent
MaxContent == 2
\* largest integer key a script uses on a global table
MaxIntKey == 2
\* string keys a script uses on a global table: the decimal texts of
\* 1..MaxStrKey
MaxStrKey == 1
\* header assignments a handler makes on one response
MaxHeaderWrites == 2
\* runs of the program on one project, and keys generated in them
MaxRuns == 2
MaxKeys == 5
\* messages sent to the database actor
MaxSends == 5
\* frames and read errors delivered on one websocket
MaxFrames == 2
\* calls of recv and send on one websocket
MaxCalls == 3
\* operations issued on one file handle
MaxOps == 4
\* ticks of the clock, the largest limit of task.timeout, the longest run
\* of fn in one poll, and its longest suspension
MaxTime == 6
MaxSeconds == 2
MaxRan == 3
MaxWait == 2
MaxRows == 3

(***************************************************************************)
(* Program constants.                                                      *)
(***************************************************************************)
\* tokio::sync::mpsc::channel(1) of changed paths
ChanCap == 1

Requests == 1..NumRequests
Contents == 1..MaxContent

\* the entry module and one template of a project
AppFile == "app.lua"
TmplFile == "templates/page.html"
Files == {AppFile, TmplFile}

(***************************************************************************)
(* State.                                                                  *)
(***************************************************************************)
VARIABLES
    \* Runtime { lua, services, started }
    lua, services, started,
    \* one call of Runtime::start per caller: position, the value of
    \* `started` it loaded, its `reload` argument, the VM it is building,
    \* and the Result it returned last
    startPc, startEntry, startReload, startBuild, startRes,
    \* the process: the server task is spawned, the token is cancelled,
    \* main has returned, and how many tasks of each kind the tracker was
    \* given
    serving, cancelled, exited, spawned,
    \* the task spawned by start_lua, and the VM handle it holds
    shutdownPc, shutLua,
    \* the task spawned by start_watcher: position, names left of the
    \* received batch, the VM it is building, what it logged last
    reloadPc, reloadTodo, reloadBuild, reloadLog,
    \* whether the template environment holds a loaded template
    tmplCache,
    \* handle_request per request: position, its `lua` local, and the
    \* response
    reqPc, reqLua, reqStatus, reqBody,
    \* the filesystem and the detector of watch.rs
    fileContent, checksums, fsEvents, detPc, detOutbox, chan,
    \* history: the file was really changed since the detector last read it
    dirty,
    \* the global store: the table lg_global_t exists, its rows, the script
    \* holds a GlobalTable handle, the script's position, the result of its
    \* last operation, and (history) what the script last assigned per key
    gExists, gRows, gHandle, gPc, gRet, gWritten,
    \* GlobalTable::pairs: the position of the spawned task and of its
    \* closure on the database thread, the rows the query has still to
    \* send, the channel, the pairs the consumer was given, how many pulls
    \* returned a pair, whether a pull returned nil, and (history) the rows
    \* of the table when the query ran
    pPc, pTodo, pChan, pGot, pPulls, pEnd, pSnap,
    \* the route table of the VM and whether the script has set
    \* routes.not_found
    routes, notFound,
    \* handle_request: its position, what routes.find returned, the res
    \* table, the map of res.headers, the cookie jar, and the response that
    \* is emitted
    hPc, hFound, hRes, resHeaders, hJar, hOut,
    \* history of the request: the header assignments that succeeded, the
    \* last assignment per cookie name, what the client sent per cookie name,
    \* the last read of a cookie; and whether a request has failed before
    hAssigned, cWritten, cRecv, cRead, hFailedBefore,
    \* the path of the request, and the error that was raised while it was
    \* handled (0 for none)
    hPath, hErr,
    \* the cookie keys: the row cookie_key of lg_internal and the file
    \* cookie_secret (NoKey while there is none), how many keys were
    \* generated, the run of the program and its position, the key in the
    \* registry of the VM in the slot and of the VM new_lua is building, and
    \* the signed cookie the client holds
    cookieKeyRow, cookieSecretFile, kGenerated, kRuns, kPc, kSlot, kBuild,
    kCookie,
    \* the end of the process: the token is cancelled, the position of main,
    \* the tasks on the tracker, whether the timeout of main runs, whether
    \* the VM of the slot defines on_shutdown, whether restart_lua is
    \* building a VM, and (history) whether the VM of the slot defined
    \* on_shutdown when the token was cancelled and how often on_shutdown was
    \* invoked
    sToken, sMain, sTasks, sTimer, sSlotHook, sBuild, sCancelHook, sCalls,
    \* the database actor: the messages in its channel, whether its loop
    \* runs, how many closures have changed the connection; and (history)
    \* per message sent what it was, what its caller was given, and the
    \* closures in the order they ran
    dbQueue, dbLoop, dbCount, dbFns, dbOut, dbRun,
    \* one websocket: what the peer has delivered and the script has not
    \* read, whether the stream has ended, the frames written to the peer;
    \* and (history) everything delivered, what each recv returned, and what
    \* the last send returned with whether its write failed
    wsStream, wsEnded, wsOut, wsArrived, wsGot, wsRet, wsCalls,
    \* one file actor: the messages in its channel, whether its loop runs,
    \* the position in its file, whether the script still holds the handle;
    \* and (history) per operation issued what it was, where its call is,
    \* the replies sent for it and the value its caller got, the operations
    \* in the order they entered the channel and in the order they were
    \* handled
    fQueue, fLoop, fPos, fHandle, fOps, fPc, fReplies, fOut, fArrived, fDone,
    \* one call of task.timeout: where it is, the clock, the instant its
    \* timer elapses, the instant from which fn can continue, and (history)
    \* how the call of fn ended
    tPc, tNow, tDeadline, tReady, tFn,
    \* one pairs() iteration beside the other calls of its consumer: the
    \* messages in the channel of the database actor, whether its thread
    \* lives, where the task and the closure of pairs are, the rows the
    \* query has still to send, the pairs in the channel of the iterator,
    \* what the consumer did with the receiver, where the consumer's call
    \* on the database is and how many it issued, and (history) how many pulls returned a pair
    iQueue, iDb, iProd, iTodo, iChan, iRx, iCall, iCalls, iPulls,
    \* one websocket handle used by two script tasks, one that receives and
    \* one that sends: which call holds the exclusive borrow of the
    \* userdata, the frames the peer has delivered and that are unread, how
    \* many it delivered, where the recv and the send are, and the frames
    \* written
    bHolder, bStream, bArrived, bRecv, bSend, bOut

slotVars == <<lua, services, started>>
startVars == <<startPc, startEntry, startReload, startBuild, startRes>>
procVars == <<serving, cancelled, exited, spawned>>
shutVars == <<shutdownPc, shutLua>>
reloadVars == <<reloadPc, reloadTodo, reloadBuild, reloadLog>>
requestVars == <<reqPc, reqLua, reqStatus, reqBody>>
fsVars == <<fileContent>>
detVars == <<checksums, fsEvents, detPc, detOutbox, chan>>

runtimeVars == <<slotVars, startVars, procVars, shutVars, reloadVars,
                 tmplCache, requestVars>>
globalVars == <<gExists, gRows, gHandle, gPc, gRet, gWritten>>
pairsVars == <<pPc, pTodo, pChan, pGot, pPulls, pEnd, pSnap>>
requestHttpVars == <<hPc, hFound, hRes, resHeaders, hJar, hOut, hAssigned,
                     cWritten, cRecv, cRead, hFailedBefore, hPath, hErr>>
keyVars == <<cookieKeyRow, cookieSecretFile, kGenerated, kRuns, kPc, kSlot,
             kBuild, kCookie>>
exitVars == <<sToken, sMain, sTasks, sTimer, sSlotHook, sBuild, sCancelHook,
              sCalls>>
routeVars == <<routes, notFound, requestHttpVars>>
\* the variables of the parts that are modelled on their own
actorVars == <<dbQueue, dbLoop, dbCount, dbFns, dbOut, dbRun>>
wsVars == <<wsStream, wsEnded, wsOut, wsArrived, wsGot, wsRet, wsCalls>>
fileVars ==
    <<fQueue, fLoop, fPos, fHandle, fOps, fPc, fReplies, fOut, fArrived,
      fDone>>
taskVars == <<tPc, tNow, tDeadline, tReady, tFn>>
iterVars ==
    <<iQueue, iDb, iProd, iTodo, iChan, iRx, iCall, iCalls, iPulls>>
borrowVars == <<bHolder, bStream, bArrived, bRecv, bSend, bOut>>
sideVars ==
    <<keyVars, exitVars, actorVars, wsVars, fileVars, taskVars, iterVars,
      borrowVars>>
sideButKeys ==
    <<exitVars, actorVars, wsVars, fileVars, taskVars, iterVars, borrowVars>>
sideButExit ==
    <<keyVars, actorVars, wsVars, fileVars, taskVars, iterVars, borrowVars>>
sideButActor ==
    <<keyVars, exitVars, wsVars, fileVars, taskVars, iterVars, borrowVars>>
sideButWs ==
    <<keyVars, exitVars, actorVars, fileVars, taskVars, iterVars,
      borrowVars>>
sideButFile ==
    <<keyVars, exitVars, actorVars, wsVars, taskVars, iterVars, borrowVars>>
sideButTask ==
    <<keyVars, exitVars, actorVars, wsVars, fileVars, iterVars, borrowVars>>
sideButIter ==
    <<keyVars, exitVars, actorVars, wsVars, fileVars, taskVars, borrowVars>>
sideButBorrow ==
    <<keyVars, exitVars, actorVars, wsVars, fileVars, taskVars, iterVars>>
httpVars == <<routeVars, sideVars>>
nonHttpVars == <<runtimeVars, fsVars, detVars, dirty, globalVars, pairsVars>>

vars == <<nonHttpVars, httpVars>>

(***************************************************************************)
(* Script VMs.  A VM is a handle to one interpreter: `stage` is how far    *)
(* new_lua has come with it, `src` is the content of app.lua that          *)
(* `require "app"` loaded into it (0 before that).                         *)
(***************************************************************************)
NoLua == [src |-> 0, stage |-> "absent"]

StageCreated == "created"
StagePrelude == "prelude"
StageCookie == "cookie"
StageRequired == "required"

\* new_lua up to its first await: Lua::new_with and the globals
NewLuaCreate == [src |-> 0, stage |-> StageCreated]

\* new_lua from one await to the next
NewLuaStep(vm) ==
    CASE vm.stage = StageCreated -> [vm EXCEPT !.stage = StagePrelude]
      [] vm.stage = StagePrelude -> [vm EXCEPT !.stage = StageCookie]
      [] vm.stage = StageCookie ->
            [vm EXCEPT !.stage = StageRequired, !.src = fileContent[AppFile]]
      [] OTHER -> vm

\* a new_lua that hands its VM out before require "app" has run
NewLuaReturnedEarly(vm) == vm.stage \in {StageCookie, StageRequired}

\* new_lua has returned Ok(lua)
NewLuaReturned(vm) == vm.stage = StageRequired

NewLuaRunning(vm) == vm.stage \in {StageCreated, StagePrelude, StageCookie}

\* Runtime::lua: the handle in the slot, or the error "not started"
RuntimeLua == lua

\* Runtime::set_lua
SetLua(vm) == vm

Callers == DOMAIN startPc

(***************************************************************************)
(* Services { database, template }.                                        *)
(***************************************************************************)
NoServices == [database |-> "", template |-> ""]

\* Database::open(app.with_extension("db")), Template::new(.../templates)
OpenServices == [database |-> "app.db", template |-> "templates"]

(***************************************************************************)
(* Runtime::start, one step per await or lock.                             *)
(***************************************************************************)
\* a load that never sees the store of the latch
StartedLoadStale == FALSE

\* the load of the latch that guards start
StartedLoad == started

StartRet(c, res) ==
    /\ startPc' = [startPc EXCEPT ![c] = "ret"]
    /\ startRes' = [startRes EXCEPT ![c] = res]

\* a caller whose start failed propagates the error out of main
StartCall(c, reload) ==
    /\ startPc[c] = "idle"
    /\ startRes[c] # "err"
    /\ startEntry' = [startEntry EXCEPT ![c] = StartedLoad]
    /\ IF StartedLoad
         THEN /\ StartRet(c, "ok")
              /\ UNCHANGED startReload
         ELSE /\ startPc' = [startPc EXCEPT ![c] = "services"]
              /\ startReload' = [startReload EXCEPT ![c] = reload]
              /\ startRes' = [startRes EXCEPT ![c] = "none"]
    /\ UNCHANGED <<slotVars, startBuild, procVars, shutVars, reloadVars,
                   tmplCache, requestVars, fsVars, detVars>>

\* start_services under the services lock
StartServicesOpen(c) ==
    /\ startPc[c] = "services"
    /\ services' = IF services = NoServices THEN OpenServices ELSE services
    /\ startPc' = [startPc EXCEPT ![c] = "schema"]
    /\ UNCHANGED <<lua, started, startEntry, startReload, startBuild,
                   startRes, procVars, shutVars, reloadVars, tmplCache,
                   requestVars, fsVars, detVars>>

\* start_services: db.call(execute_batch(SQL_SCHEMA)).await
StartServicesSchema(c) ==
    /\ startPc[c] = "schema"
    /\ startPc' = [startPc EXCEPT
                     ![c] = IF startReload[c] THEN "watcher" ELSE "new_lua"]
    /\ UNCHANGED <<slotVars, startEntry, startReload, startBuild, startRes,
                   procVars, shutVars, reloadVars, tmplCache, requestVars,
                   fsVars, detVars>>

\* start_watcher: the Watch message goes to the detector's actor and the
\* reload task is spawned on the tracker
StartWatcher(c) ==
    /\ startPc[c] = "watcher"
    /\ services # NoServices
    /\ detPc' = IF detPc # "off" THEN detPc
                ELSE IF cancelled THEN "stopped" ELSE "msg"
    /\ reloadPc' = IF reloadPc = "none" THEN "recv" ELSE reloadPc
    /\ spawned' = [spawned EXCEPT !.watcher = @ + 1]
    /\ startPc' = [startPc EXCEPT ![c] = "new_lua"]
    /\ UNCHANGED <<slotVars, startEntry, startReload, startBuild, startRes,
                   serving, cancelled, exited, shutVars, reloadTodo,
                   reloadBuild, reloadLog, tmplCache,
                   requestVars, fsVars, checksums, fsEvents, detOutbox,
                   chan>>

\* start_lua: new_lua up to its first await
StartNewLuaCreate(c) ==
    /\ startPc[c] = "new_lua"
    /\ startBuild[c] = NoLua
    /\ services # NoServices
    /\ startBuild' = [startBuild EXCEPT ![c] = NewLuaCreate]
    /\ UNCHANGED <<slotVars, startPc, startEntry, startReload, startRes,
                   procVars, shutVars, reloadVars, tmplCache, requestVars,
                   fsVars, detVars>>

\* start_lua: new_lua from one await to the next
StartNewLuaStep(c) ==
    /\ startPc[c] = "new_lua"
    /\ NewLuaRunning(startBuild[c])
    /\ startBuild' = [startBuild EXCEPT ![c] = NewLuaStep(@)]
    /\ UNCHANGED <<slotVars, startPc, startEntry, startReload, startRes,
                   procVars, shutVars, reloadVars, tmplCache, requestVars,
                   fsVars, detVars>>

\* start_lua: set_lua, then the shutdown task is spawned on the tracker
StartSetLua(c) ==
    /\ startPc[c] = "new_lua"
    /\ NewLuaReturned(startBuild[c])
    /\ lua' = SetLua(startBuild[c])
    /\ startBuild' = [startBuild EXCEPT ![c] = NoLua]
    /\ shutdownPc' = IF shutdownPc = "none" THEN "waiting" ELSE shutdownPc
    /\ spawned' = [spawned EXCEPT !.shutdown = @ + 1]
    /\ startPc' = [startPc EXCEPT ![c] = "flip"]
    /\ UNCHANGED <<services, started, startEntry, startReload, startRes,
                   serving, cancelled, exited, shutLua, reloadVars,
                   tmplCache, requestVars, fsVars, detVars>>

\* start: self.started.store(true), Ok(())
StartFlip(c) ==
    /\ startPc[c] = "flip"
    /\ started' = TRUE
    /\ StartRet(c, "ok")
    /\ UNCHANGED <<lua, services, startEntry, startReload, startBuild,
                   procVars, shutVars, reloadVars, tmplCache, requestVars,
                   fsVars, detVars>>

\* a start that sets the latch on its error path as well
StartFailLatched(c) ==
    /\ \/ startPc[c] \in {"schema", "watcher"}
       \/ startPc[c] = "services" /\ services = NoServices
       \/ startPc[c] = "new_lua" /\ ~NewLuaReturned(startBuild[c])
    /\ startBuild' = [startBuild EXCEPT ![c] = NoLua]
    /\ started' = TRUE
    /\ StartRet(c, "err")
    /\ UNCHANGED <<lua, services, startEntry, startReload, procVars,
                   shutVars, reloadVars, tmplCache, requestVars, fsVars,
                   detVars>>

\* any `?` of start: Database::open, the schema call, services(), watch,
\* and every fallible step of new_lua
StartFail(c) ==
    /\ \/ startPc[c] \in {"schema", "watcher"}
       \/ startPc[c] = "services" /\ services = NoServices
       \/ startPc[c] = "new_lua" /\ ~NewLuaReturned(startBuild[c])
    /\ startBuild' = [startBuild EXCEPT ![c] = NoLua]
    /\ StartRet(c, "err")
    /\ UNCHANGED <<slotVars, startEntry, startReload, procVars, shutVars,
                   reloadVars, tmplCache, requestVars, fsVars, detVars>>

\* start has returned to its caller
StartReturn(c) ==
    /\ startPc[c] = "ret"
    /\ startPc' = [startPc EXCEPT ![c] = "idle"]
    /\ startEntry' = [startEntry EXCEPT ![c] = FALSE]
    /\ UNCHANGED <<slotVars, startReload, startBuild, startRes,
                   procVars, shutVars, reloadVars, tmplCache, requestVars,
                   fsVars, detVars>>

(***************************************************************************)
(* The process around the Runtime.                                         *)
(***************************************************************************)
\* Serve::run after start returned Ok: the server task is spawned
ServeSpawn ==
    /\ ~serving
    /\ \E c \in Callers : startPc[c] = "idle" /\ startRes[c] = "ok"
    /\ serving' = TRUE
    /\ UNCHANGED <<slotVars, startVars, cancelled, exited, spawned,
                   shutVars, reloadVars, tmplCache, requestVars, fsVars,
                   detVars>>

\* the detector is dropped with the cancelled token: its watcher thread
\* stops and its sender closes
DetectorStop ==
    /\ detPc' = IF detPc = "off" THEN "off" ELSE "stopped"
    /\ fsEvents' = {}
    /\ detOutbox' = {}
    /\ UNCHANGED <<checksums, chan>>

\* main: ctrl-c cancels the token
Cancel ==
    /\ ~cancelled
    /\ cancelled' = TRUE
    /\ DetectorStop
    /\ UNCHANGED <<slotVars, startVars, serving, exited, spawned, shutVars,
                   reloadVars, tmplCache, requestVars, fsVars>>

\* main: the error of start is returned with `?` and the process ends
MainExit ==
    /\ \E c \in Callers : startPc[c] = "idle" /\ startRes[c] = "err"
    /\ exited' = TRUE
    /\ UNCHANGED <<slotVars, startVars, serving, cancelled, spawned,
                   shutVars, reloadVars, tmplCache, requestVars, fsVars,
                   detVars>>

\* the shutdown task: token.cancelled().await, then Runtime::shutdown
\* takes the handle out of the slot
ShutdownRead ==
    /\ shutdownPc = "waiting"
    /\ cancelled
    /\ shutLua' = RuntimeLua
    /\ shutdownPc' = "call"
    /\ UNCHANGED <<slotVars, startVars, procVars, reloadVars, tmplCache,
                   requestVars, fsVars, detVars>>

\* Runtime::shutdown: on_shutdown.call_async(()).await
ShutdownCall ==
    /\ shutdownPc = "call"
    /\ shutLua' = NoLua
    /\ shutdownPc' = "done"
    /\ UNCHANGED <<slotVars, startVars, procVars, reloadVars, tmplCache,
                   requestVars, fsVars, detVars>>

(***************************************************************************)
(* The filesystem, and the detector of watch.rs.                           *)
(***************************************************************************)
\* checksum_file: xxh3 of the bytes, which tells the contents of the
\* model apart
Checksum(content) == (content * 37 + 11) % 101

\* the debouncer is registered for the root
Registered == detPc \in {"watching", "sending"}

\* the files under the root
Project == DOMAIN fileContent

\* a write to a file, with the same bytes or with others
FileWrite(f, c) ==
    /\ fileContent' = [fileContent EXCEPT ![f] = c]
    /\ fsEvents' = IF Registered THEN fsEvents \cup {f} ELSE fsEvents
    /\ UNCHANGED <<slotVars, startVars, procVars, shutVars, reloadPc,
                   reloadTodo, reloadBuild, reloadLog, tmplCache,
                   requestVars, checksums, detPc, detOutbox, chan>>

\* a walk that finds no file
ChecksumDirEmpty(sums) == sums

\* checksums.lock().extend(checksum_dir(&path)?): the map with the hash of
\* every file the walk of the root finds
ChecksumDir(sums) ==
    [f \in DOMAIN sums \cup Project |-> Checksum(fileContent[f])]

\* watch_actor on Message::Watch(path, Recursive): checksum_dir seeds the
\* map, then debouncer.watch(path, Recursive) registers the root
DetectorWatch ==
    /\ detPc = "msg"
    /\ checksums' = ChecksumDir(checksums)
    /\ detPc' = "watching"
    /\ UNCHANGED <<slotVars, startVars, procVars, shutVars, reloadVars,
                   tmplCache, requestVars, fsVars, fsEvents, detOutbox,
                   chan>>

\* the entry of the map after entry(file).or_insert(new_checksum)
OrInsert(sums, f) ==
    IF f \in DOMAIN sums THEN sums[f] ELSE Checksum(fileContent[f])

\* handle_event_failable: the paths of the batch whose checksum differs
\* from the one the map holds
Changed(batch) ==
    {f \in batch : Checksum(fileContent[f]) # OrInsert(checksums, f)}

\* a channel that always takes one more message
ChannelNeverFull(ch) == TRUE

\* changed_tx.blocking_send: the bounded channel has a free slot
ChannelHasRoom(ch) == Len(ch) < ChanCap

\* handle_event_failable on one debounced batch; blocking_send returns at
\* once when the channel has room and waits otherwise
DetectorHandle(batch) ==
    /\ detPc = "watching"
    /\ batch # {}
    /\ batch \subseteq fsEvents
    /\ fsEvents' = fsEvents \ batch
    /\ checksums' = [f \in DOMAIN checksums \cup batch |->
                        OrInsert(checksums, f)]
    /\ IF Changed(batch) = {}
         THEN UNCHANGED <<detPc, detOutbox, chan>>
         ELSE IF ChannelHasRoom(chan)
                THEN /\ chan' = Append(chan, Changed(batch))
                     /\ UNCHANGED <<detPc, detOutbox>>
                ELSE /\ detPc' = "sending"
                     /\ detOutbox' = Changed(batch)
                     /\ UNCHANGED chan
    /\ UNCHANGED <<slotVars, startVars, procVars, shutVars, reloadVars,
                   tmplCache, requestVars, fsVars>>

\* handle_event_failable: the blocking_send that waited gets its room
DetectorSend ==
    /\ detPc = "sending"
    /\ ChannelHasRoom(chan)
    /\ chan' = Append(chan, detOutbox)
    /\ detOutbox' = {}
    /\ detPc' = "watching"
    /\ UNCHANGED <<slotVars, startVars, procVars, shutVars, reloadVars,
                   tmplCache, requestVars, fsVars, checksums, fsEvents>>

(***************************************************************************)
(* The reload task of start_watcher.                                       *)
(***************************************************************************)
LuaFiles == {AppFile}
TemplateFiles == {TmplFile}

\* the matchers of start_watcher, in order: ("runtime", Extension("lua")),
\* ("templates", StartsWith(<root>/templates)); a path goes to the first
\* that matches
MatchName(f) ==
    IF f \in LuaFiles THEN "runtime"
    ELSE IF f \in TemplateFiles THEN "templates"
    ELSE "none"

\* the names of the non-empty buckets of a batch, in matcher order
Buckets(paths) ==
    (IF \E f \in paths : MatchName(f) = "runtime"
       THEN <<"runtime">> ELSE <<>>)
    \o (IF \E f \in paths : MatchName(f) = "templates"
          THEN <<"templates">> ELSE <<>>)

\* the loop goes on with the next name, or back to rx.recv()
ReloadContinue(todo) ==
    /\ reloadPc' = IF todo = <<>> THEN "recv" ELSE Head(todo)
    /\ reloadTodo' = IF todo = <<>> THEN <<>> ELSE Tail(todo)

\* while let Some((name, _changes)) = rx.recv().await
ReloadRecv ==
    /\ reloadPc = "recv"
    /\ chan # <<>>
    /\ chan' = Tail(chan)
    /\ ReloadContinue(Buckets(Head(chan)))
    /\ UNCHANGED <<slotVars, startVars, procVars, shutVars, reloadBuild,
                   reloadLog, tmplCache, requestVars, fsVars,
                   checksums, fsEvents, detPc, detOutbox>>

\* rx.recv() returns None once the sender is gone and the channel is empty
ReloadRecvClosed ==
    /\ reloadPc = "recv"
    /\ chan = <<>>
    /\ detPc = "stopped"
    /\ reloadPc' = "done"
    /\ UNCHANGED <<slotVars, startVars, procVars, shutVars, reloadTodo,
                   reloadBuild, reloadLog, tmplCache,
                   requestVars, fsVars, detVars>>

\* "runtime": restart_lua, new_lua up to its first await
ReloadNewLuaCreate ==
    /\ reloadPc = "runtime"
    /\ reloadBuild = NoLua
    /\ reloadBuild' = NewLuaCreate
    /\ UNCHANGED <<slotVars, startVars, procVars, shutVars, reloadPc,
                   reloadTodo, reloadLog, tmplCache,
                   requestVars, fsVars, detVars>>

\* "runtime": restart_lua, new_lua from one await to the next
ReloadNewLuaStep ==
    /\ reloadPc = "runtime"
    /\ NewLuaRunning(reloadBuild)
    /\ reloadBuild' = NewLuaStep(reloadBuild)
    /\ UNCHANGED <<slotVars, startVars, procVars, shutVars, reloadPc,
                   reloadTodo, reloadLog, tmplCache,
                   requestVars, fsVars, detVars>>

\* "runtime": restart_lua, set_lua(lua) after new_lua returned Ok
ReloadSetLua ==
    /\ reloadPc = "runtime"
    /\ NewLuaReturned(reloadBuild)
    /\ lua' = SetLua(reloadBuild)
    /\ reloadBuild' = NoLua
    /\ reloadLog' = "ok"
    /\ ReloadContinue(reloadTodo)
    /\ UNCHANGED <<services, started, startVars, procVars, shutVars,
                   tmplCache, requestVars, fsVars, detVars>>

\* a restart_lua that empties the slot when new_lua fails
ReloadFailClearsSlot ==
    /\ reloadPc = "runtime"
    /\ ~NewLuaReturned(reloadBuild)
    /\ lua' = NoLua
    /\ reloadBuild' = NoLua
    /\ reloadLog' = "err"
    /\ ReloadContinue(reloadTodo)
    /\ UNCHANGED <<services, started, startVars, procVars, shutVars,
                   tmplCache, requestVars, fsVars, detVars>>

\* "runtime": new_lua returned Err, restart_lua returns it with `?`, the
\* task logs "error restarting runtime" and goes on
ReloadFail ==
    /\ reloadPc = "runtime"
    /\ ~NewLuaReturned(reloadBuild)
    /\ reloadBuild' = NoLua
    /\ reloadLog' = "err"
    /\ ReloadContinue(reloadTodo)
    /\ UNCHANGED <<slotVars, startVars, procVars, shutVars, tmplCache,
                   requestVars, fsVars, detVars>>

\* "templates": env.clear_templates() on the template actor
ReloadTemplates ==
    /\ reloadPc = "templates"
    /\ tmplCache' = FALSE
    /\ ReloadContinue(reloadTodo)
    /\ UNCHANGED <<slotVars, startVars, procVars, shutVars, reloadBuild,
                   reloadLog, requestVars, fsVars, detVars>>

(***************************************************************************)
(* handle_request.                                                         *)
(***************************************************************************)
\* a handler that looks the VM up in the slot when it runs
HandlerVmOfSlot(r) == lua

\* the VM the handler of a request runs on: the `lua` local
HandlerVm(r) == reqLua[r]

\* let lua = runtime.lua()?; routes.find(path); create_request(&lua, ..)
ReqStart(r) ==
    /\ serving
    /\ ~cancelled
    /\ reqPc[r] = "idle"
    /\ reqLua' = [reqLua EXCEPT ![r] = RuntimeLua]
    /\ IF RuntimeLua = NoLua
         THEN /\ reqPc' = [reqPc EXCEPT ![r] = "done"]
              /\ reqStatus' = [reqStatus EXCEPT ![r] = 500]
         ELSE /\ reqPc' = [reqPc EXCEPT ![r] = "handler"]
              /\ UNCHANGED reqStatus
    /\ UNCHANGED <<slotVars, startVars, procVars, shutVars, reloadVars,
                   tmplCache, reqBody, fsVars, detVars>>

\* the handler renders a template: the environment loads and caches it
ReqRender(r) ==
    /\ reqPc[r] = "handler"
    /\ ~tmplCache
    /\ tmplCache' = TRUE
    /\ UNCHANGED <<slotVars, startVars, procVars, shutVars, reloadVars,
                   requestVars, fsVars, detVars>>

\* handler.call_async((req, &res)).await returned Ok: the body is what
\* the source loaded into the VM writes
ReqHandler(r) ==
    /\ reqPc[r] = "handler"
    /\ reqBody' = [reqBody EXCEPT ![r] = HandlerVm(r).src]
    /\ reqStatus' = [reqStatus EXCEPT ![r] = 200]
    /\ reqPc' = [reqPc EXCEPT ![r] = "done"]
    /\ UNCHANGED <<slotVars, startVars, procVars, shutVars, reloadVars,
                   tmplCache, reqLua, fsVars, detVars>>

\* an error of create_request or of the handler: LuaServeError
ReqFail(r) ==
    /\ reqPc[r] = "handler"
    /\ reqStatus' = [reqStatus EXCEPT ![r] = 500]
    /\ reqPc' = [reqPc EXCEPT ![r] = "done"]
    /\ UNCHANGED <<slotVars, startVars, procVars, shutVars, reloadVars,
                   tmplCache, reqLua, reqBody, fsVars, detVars>>

\* the response is sent and the locals of handle_request are dropped
ReqRespond(r) ==
    /\ reqPc[r] = "done"
    /\ reqPc' = [reqPc EXCEPT ![r] = "idle"]
    /\ reqLua' = [reqLua EXCEPT ![r] = NoLua]
    /\ reqStatus' = [reqStatus EXCEPT ![r] = 0]
    /\ reqBody' = [reqBody EXCEPT ![r] = 0]
    /\ UNCHANGED <<slotVars, startVars, procVars, shutVars, reloadVars,
                   tmplCache, fsVars, detVars>>

(***************************************************************************)
(* The global store: global.rs.  A script value is [t, v]: its type and a  *)
(* number that tells the values of the type apart (a string is the decimal *)
(* text of v, a boolean is true for 1).                                    *)
(***************************************************************************)
Nil == [t |-> "nil", v |-> 0]
LuaInteger(i) == [t |-> "integer", v |-> i]
LuaString(n) == [t |-> "string", v |-> n]
LuaBoolean(b) == [t |-> "boolean", v |-> b]
\* lua.null(), the light userdata that stands for JSON null
LuaNull == [t |-> "null", v |-> 0]

\* the non-nil values a script stores
LuaValues == {LuaInteger(1), LuaString(1), LuaBoolean(0), LuaNull}

\* the keys a script uses
LuaKeys ==
    {LuaInteger(i) : i \in 1..MaxIntKey} \cup {LuaString(n) : n \in 1..MaxStrKey}

\* history: the key was not assigned since the table was created
Unassigned == [t |-> "unassigned", v |-> 0]

\* a key conversion that sends every key through to_string
KeyFromLuaToString(key) == [column |-> "key_str", key |-> key.v]

\* the key conversion of __index (TryFrom<LuaValue>) and of __newindex: an
\* integer is GlobalTableKey::Int, anything else the Str of its to_string;
\* `column` is GlobalTableKey::column
KeyFromLua(key) ==
    IF key.t = "integer"
      THEN [column |-> "key_int", key |-> key.v]
      ELSE [column |-> "key_str", key |-> key.v]

\* serde_sqlite_jsonb::to_vec(&value): the JSONB element of a script value
ToVec(value) ==
    CASE value.t = "integer" -> [type |-> "INT", payload |-> value.v]
      [] value.t = "string" -> [type |-> "TEXT", payload |-> value.v]
      [] value.t = "boolean" ->
            [type |-> IF value.v = 1 THEN "TRUE" ELSE "FALSE", payload |-> 0]
      [] OTHER -> [type |-> "NULL", payload |-> 0]

\* serde_sqlite_jsonb::from_slice: the serde_json::Value of a JSONB element
FromSlice(blob) ==
    CASE blob.type = "INT" -> [json |-> "Number", n |-> blob.payload]
      [] blob.type = "TEXT" -> [json |-> "String", n |-> blob.payload]
      [] blob.type = "TRUE" -> [json |-> "Bool", n |-> 1]
      [] blob.type = "FALSE" -> [json |-> "Bool", n |-> 0]
      [] OTHER -> [json |-> "Null", n |-> 0]

\* lua.to_value(&value): the script value of a serde_json::Value
ToValue(value) ==
    CASE value.json = "Number" -> LuaInteger(value.n)
      [] value.json = "String" -> LuaString(value.n)
      [] value.json = "Bool" -> LuaBoolean(value.n)
      [] OTHER -> LuaNull

\* a row of lg_global_<name>: an SQL NULL is <<>>, a value x is <<x>>
Row(key, value) ==
    [key_int |-> IF key.column = "key_int" THEN <<key.key>> ELSE <<>>,
     key_str |-> IF key.column = "key_str" THEN <<key.key>> ELSE <<>>,
     value |-> value]

\* WHERE {column} = ?
Where(rows, key) ==
    {row \in rows : IF key.column = "key_int"
                      THEN row.key_int = <<key.key>>
                      ELSE row.key_str = <<key.key>>}

\* GlobalTable::set: INSERT OR REPLACE INTO t ({column}, value); the row
\* that holds the key in its UNIQUE column is replaced
GlobalTableSet(rows, key, value) ==
    (rows \ Where(rows, key)) \cup {Row(key, ToVec(value))}

\* GlobalTable::get: SELECT jsonb(value) ... WHERE {column} = ?, optional():
\* None is <<>>, Some(value) is <<value>>
GlobalTableGet(rows, key) ==
    IF Where(rows, key) = {}
      THEN <<>>
      ELSE <<FromSlice((CHOOSE row \in Where(rows, key) : TRUE).value)>>

\* a del that leaves the row in place
GlobalTableDelNothing(rows, key) == rows

\* GlobalTable::del: DELETE FROM t WHERE {column} = ?
GlobalTableDel(rows, key) == rows \ Where(rows, key)

\* SELECT max(key_int) FROM t: NULL when no row has an integer key
MaxKeyInt(rows) ==
    LET ints == {row.key_int[1] : row \in {q \in rows : q.key_int # <<>>}}
    IN  IF ints = {} THEN <<>>
        ELSE <<CHOOSE i \in ints : \A j \in ints : j <= i>>

\* GlobalTable::len: row.get(0) as usize; a NULL and a negative number are
\* not a usize, and the error goes to the script
GlobalTableLen(rows) ==
    IF MaxKeyInt(rows) = <<>> \/ MaxKeyInt(rows)[1] < 0
      THEN [status |-> "err", out |-> Nil]
      ELSE [status |-> "ok", out |-> LuaInteger(MaxKeyInt(rows)[1])]

NoRet == [op |-> "none", key |-> Nil, arg |-> Nil, status |-> "none",
          out |-> Nil]

\* the operation returns to the script
Return(op, key, arg, status, out) ==
    /\ gPc' = "ret"
    /\ gRet' = [op |-> op, key |-> key, arg |-> arg, status |-> status,
                out |-> out]

\* Global __index, `global.t`: GlobalTable::create (CREATE TABLE IF NOT
\* EXISTS), and the handle is given to the script
GlobalIndex ==
    /\ gPc = "idle"
    /\ gExists' = TRUE
    /\ gHandle' = TRUE
    /\ Return("index", Nil, Nil, "ok", Nil)
    /\ UNCHANGED <<gRows, gWritten, runtimeVars, fsVars, detVars, dirty>>

\* a `global.t = nil` that forgets the name and keeps the rows
GlobalNewIndexKeepsRows(value) ==
    /\ gPc = "idle"
    /\ IF value = Nil
         THEN /\ gExists' = FALSE
              /\ Return("destroy", Nil, value, "ok", Nil)
         ELSE /\ Return("destroy", Nil, value, "err", Nil)
              /\ UNCHANGED gExists
    /\ UNCHANGED <<gRows, gWritten, gHandle, runtimeVars, fsVars, detVars,
                   dirty>>

\* Global __newindex, `global.t = value`: nil drops the table
\* (GlobalTable::destroy, DROP TABLE IF EXISTS), any other value is the
\* error "cannot set value on global"
GlobalNewIndex(value) ==
    /\ gPc = "idle"
    /\ IF value = Nil
         THEN /\ gExists' = FALSE
              /\ gRows' = {}
              /\ gWritten' = [k \in LuaKeys |-> Unassigned]
              /\ Return("destroy", Nil, value, "ok", Nil)
         ELSE /\ Return("destroy", Nil, value, "err", Nil)
              /\ UNCHANGED <<gExists, gRows, gWritten>>
    /\ UNCHANGED <<gHandle, runtimeVars, fsVars, detVars, dirty>>

\* GlobalTable __newindex, `t[key] = value`: del for nil, set otherwise;
\* the statement fails when the table is gone
GlobalTableNewIndex(key, value) ==
    /\ gPc = "idle"
    /\ gHandle
    /\ IF ~gExists
         THEN /\ Return(IF value = Nil THEN "del" ELSE "set", key, value,
                        "err", Nil)
              /\ UNCHANGED <<gRows, gWritten>>
         ELSE /\ gRows' = IF value = Nil
                            THEN GlobalTableDel(gRows, KeyFromLua(key))
                            ELSE GlobalTableSet(gRows, KeyFromLua(key), value)
              /\ gWritten' = [gWritten EXCEPT ![key] = value]
              /\ Return(IF value = Nil THEN "del" ELSE "set", key, value,
                        "ok", Nil)
    /\ UNCHANGED <<gExists, gHandle, runtimeVars, fsVars, detVars, dirty>>

\* GlobalTable __index, `t[key]`: get, and nil for None
GlobalTableIndex(key) ==
    /\ gPc = "idle"
    /\ gHandle
    /\ IF ~gExists
         THEN Return("get", key, Nil, "err", Nil)
         ELSE IF GlobalTableGet(gRows, KeyFromLua(key)) = <<>>
                THEN Return("get", key, Nil, "ok", Nil)
                ELSE Return("get", key, Nil, "ok",
                            ToValue(GlobalTableGet(gRows, KeyFromLua(key))[1]))
    /\ UNCHANGED <<gExists, gRows, gHandle, gWritten, runtimeVars, fsVars,
                   detVars, dirty>>

\* GlobalTable __len, `#t`
GlobalTableLenOp ==
    /\ gPc = "idle"
    /\ gHandle
    /\ IF ~gExists
         THEN Return("len", Nil, Nil, "err", Nil)
         ELSE Return("len", Nil, Nil, GlobalTableLen(gRows).status,
                     GlobalTableLen(gRows).out)
    /\ UNCHANGED <<gExists, gRows, gHandle, gWritten, runtimeVars, fsVars,
                   detVars, dirty>>

\* the script goes on to its next statement
ScriptNext ==
    /\ gPc = "ret"
    /\ gPc' = "idle"
    /\ gRet' = NoRet
    /\ UNCHANGED <<gExists, gRows, gHandle, gWritten, runtimeVars, fsVars,
                   detVars, dirty>>

(***************************************************************************)
(* GlobalTable::pairs (global.rs).  pairs spawns a task and returns the    *)
(* receiving end of a channel of capacity 1.  The task hands one closure   *)
(* to the database thread; the closure runs the SELECT and sends one       *)
(* do_pairs(row) per row with blocking_send, so the database thread is     *)
(* busy until the last row is in the channel.  The sender is dropped when  *)
(* the closure returns.                                                    *)
(***************************************************************************)
PairsCap == 1

\* do_pairs: the key of a row is Int for (Some, None), Str for (None, Some);
\* the value is decoded from JSONB
DoPairs(row) ==
    [key |-> IF row.key_int # <<>> /\ row.key_str = <<>>
               THEN [column |-> "key_int", key |-> row.key_int[1]]
               ELSE [column |-> "key_str", key |-> row.key_str[1]],
     value |-> FromSlice(row.value)]

\* a __call that hands every key to the script as a string
PairsToLuaAllStrings(pair) ==
    [key |-> LuaString(pair.key.key), value |-> ToValue(pair.value)]

\* GlobalTablePairs __call, Some((key, val)): lua.to_value(&key) is an
\* integer for Int and a string for Str (Serialize for GlobalTableKey)
PairsToLua(pair) ==
    [key |-> IF pair.key.column = "key_int"
               THEN LuaInteger(pair.key.key)
               ELSE LuaString(pair.key.key),
     value |-> ToValue(pair.value)]

\* the script runs a statement on the store: the database thread is not
\* inside the closure of pairs, and the consumer's loop has not begun to
\* drain the channel (the body of the loop leaves the store alone)
DbIdle == pPc \in {"none", "spawned"}

\* GlobalTable::pairs: tokio::spawn, and the receiver goes to the consumer
PairsCall ==
    /\ gPc = "idle"
    /\ gHandle
    /\ pPc = "none"
    /\ pPc' = "spawned"
    /\ pGot' = {}
    /\ pPulls' = 0
    /\ pEnd' = FALSE
    /\ pSnap' = {}
    /\ UNCHANGED <<pTodo, pChan, globalVars, runtimeVars, fsVars, detVars,
                   dirty, httpVars>>

\* the closure starts on the database thread: conn.prepare and stmt.query.
\* When the table is gone prepare fails, the closure returns the error, the
\* task panics on unwrap and the sender is dropped
PairsQuery ==
    /\ pPc = "spawned"
    /\ pSnap' = gRows
    /\ pTodo' = IF gExists THEN gRows ELSE {}
    /\ pPc' = IF gExists /\ gRows # {} THEN "query" ELSE "closed"
    /\ UNCHANGED <<pChan, pGot, pPulls, pEnd, globalVars, runtimeVars,
                   fsVars, detVars, dirty, httpVars>>

\* query.next() and tx.blocking_send(do_pairs(row)): waits for room in the
\* channel; after the last row the closure returns and the sender is
\* dropped.  SQL fixes no order for the rows
PairsSend(row) ==
    /\ pPc = "query"
    /\ row \in pTodo
    /\ Len(pChan) < PairsCap
    /\ pChan' = Append(pChan, DoPairs(row))
    /\ pTodo' = pTodo \ {row}
    /\ pPc' = IF pTodo = {row} THEN "closed" ELSE "query"
    /\ UNCHANGED <<pGot, pPulls, pEnd, pSnap, globalVars, runtimeVars,
                   fsVars, detVars, dirty, httpVars>>

\* GlobalTablePairs __call: recv().await; a pair for Some, nil for None
\* (the channel is empty and the sender is dropped)
PairsPull ==
    /\ gPc = "idle"
    /\ pPc \in {"spawned", "query", "closed"}
    /\ ~pEnd
    /\ IF pChan # <<>>
         THEN /\ pGot' = pGot \cup {PairsToLua(Head(pChan))}
              /\ pPulls' = pPulls + 1
              /\ pChan' = Tail(pChan)
              /\ UNCHANGED pEnd
         ELSE /\ pPc = "closed"
              /\ pEnd' = TRUE
              /\ UNCHANGED <<pGot, pPulls, pChan>>
    /\ UNCHANGED <<pPc, pTodo, pSnap, globalVars, runtimeVars, fsVars,
                   detVars, dirty, httpVars>>

\* the consumer lets go of an iterator that has ended
PairsDone ==
    /\ pEnd
    /\ pPc = "closed"
    /\ pPc' = "none"
    /\ pEnd' = FALSE
    /\ pGot' = {}
    /\ pPulls' = 0
    /\ pSnap' = {}
    /\ UNCHANGED <<pTodo, pChan, globalVars, runtimeVars, fsVars, detVars,
                   dirty, httpVars>>

InitPairs ==
    /\ pPc = "none"
    /\ pTodo = {}
    /\ pChan = <<>>
    /\ pGot = {}
    /\ pPulls = 0
    /\ pEnd = FALSE
    /\ pSnap = {}

InitGlobal ==
    /\ gExists = FALSE
    /\ gRows = {}
    /\ gHandle = FALSE
    /\ gPc = "idle"
    /\ gRet = NoRet
    /\ gWritten = [k \in LuaKeys |-> Unassigned]
    /\ InitPairs

(***************************************************************************)
(* The route table (routes.rs).  A key and a request path are sequences of *)
(* pieces: "/a" is <<"/", "a">>, "/" is <<"/">>, "/:id" is <<"/", ":id">>, *)
(* and the key "a" is <<"a">>.                                             *)
(***************************************************************************)
RouteKeys == {<<"/">>, <<"/", "a">>, <<"/", ":id">>, <<"a">>}
Paths == {<<"/">>, <<"/", "a">>, <<"/", "b">>}

\* the piece is a parameter of a pattern
IsParam(piece) == piece = ":id"

\* the name a parameter is captured under
ParamName(piece) == "id"

StartsWithSlash(key) == key # <<>> /\ key[1] = "/"

\* Routes __newindex: PathTree::insert(&key, function); any key is taken
PathTreeInsert(tree, key) == tree \cup {key}

\* the pattern matches the path piece by piece; a parameter matches one
\* segment
PathMatches(key, path) ==
    /\ Len(key) = Len(path)
    /\ \A i \in 1..Len(key) :
          \/ key[i] = path[i]
          \/ IsParam(key[i]) /\ path[i] # "/"

\* path.params_iter(): the captured segments by parameter name
PathParams(key, path) ==
    {<<ParamName(key[i]), path[i]>> : i \in {j \in 1..Len(key) : IsParam(key[j])}}

NotFoundHandler == <<"not_found">>

\* routes.find(path): the handler of the pattern that matches, a static
\* pattern before one with a parameter, with the matched path; the
\* not_found handler and no path when nothing matches
RoutesFind(tree, path) ==
    IF path \in tree
      THEN [handler |-> path, path |-> <<path>>]
      ELSE IF \E key \in tree : PathMatches(key, path)
        THEN LET key == CHOOSE k \in tree : PathMatches(k, path)
             IN  [handler |-> key, path |-> <<key>>]
        ELSE [handler |-> NotFoundHandler, path |-> <<>>]

\* a translation that forgets the captures of the path
RouteAndParamsNoCaptures(found, path) ==
    [route |-> found.path, params |-> {}]

\* handle_request: req.route is the pattern and req.params its captures
\* when a path was found, nil and an empty table otherwise
RouteAndParams(found, path) ==
    IF found.path # <<>>
      THEN [route |-> <<found.path[1]>>,
            params |-> PathParams(found.path[1], path)]
      ELSE [route |-> <<>>, params |-> {}]

NoFound == [handler |-> <<>>, route |-> <<>>, params |-> {}]

(***************************************************************************)
(* Responses (serve.rs, runtime/http.rs).                                  *)
(***************************************************************************)
\* the errors a script raises
LuaErrors == {1, 2}
\* the error of create_request
TranslateError == 3
\* the errors of LuaHeaders __newindex
HeaderError == 4

\* the strings a handler assigns to res.body; the number 0 is the empty string
Bodies == {1, 2}
BodyString(b) == [t |-> "string", v |-> b]
\* a value of res.body that is no string
BodyTable == [t |-> "table", v |-> 0]

\* the names a handler uses on res.headers
ScriptHeaderNames == {"x-a", "X-A", "x-b", "x b"}
HeaderNames == {"x-a", "x-b"}
\* the header values: 0 holds a line break
HeaderValues == {0, 1, 2}

\* HeaderName::from_bytes: the lower-case name, None for an invalid one
HeaderNameFromBytes(name) ==
    CASE name = "X-A" -> <<"x-a">>
      [] name \in HeaderNames -> <<name>>
      [] OTHER -> <<>>

\* value.parse::<HeaderValue>(): None for a byte that no header value holds
HeaderValueParse(value) == IF value = 0 THEN <<>> ELSE <<value>>

EmptyHeaders == [n \in HeaderNames |-> <<>>]

\* a map that keeps one value per name
HeaderMapInsert(map, name, value) == [map EXCEPT ![name] = <<value>>]

\* HeaderMap::append: the value is added after those the name has
HeaderMapAppend(map, name, value) == [map EXCEPT ![name] = Append(@, value)]

\* new_response: status 200, no headers, an empty body
NewResponse == [status |-> 200, body |-> BodyString(0)]

NoOut == [status |-> 0, headers |-> EmptyHeaders, cookies |-> {},
          body |-> [t |-> "none", v |-> 0]]

\* StatusCode::from_u16(status).unwrap_or(INTERNAL_SERVER_ERROR)
StatusFromU16(status) ==
    IF status >= 100 /\ status <= 999 THEN status ELSE 500

\* an error response that does not tell the error
ErrorResponseSilent(err) ==
    [status |-> 500, headers |-> EmptyHeaders, cookies |-> {},
     body |-> [t |-> "bytes", v |-> 0]]

\* LuaServeError::into_response: 500, and the body is the message
\* "error in lua serve function: lua error: {err}"
ErrorResponse(err) ==
    [status |-> 500, headers |-> EmptyHeaders, cookies |-> {},
     body |-> [t |-> "error in lua serve function: lua error: ", v |-> err]]

(***************************************************************************)
(* The cookie jar (runtime/http.rs, crate cookie).  A cookie of the jar is *)
(* its value with the signature in front of it; text 3 holds a line        *)
(* break, text 0 is the empty string.                                      *)
(***************************************************************************)
CookieNames == {"sid", "lang"}
CookieValues == {1, 2, 3}
HasLineBreak(text) == text = 3

\* the key in the registry of the VM, and another key
MasterKey == 1
OtherKey == 2

\* HMAC of the value under the key; 0 is no signature
MacBase == 10
Mac(key, value) == key * MacBase + value
NoSig == 0

NoCookie == [kind |-> "absent", sig |-> NoSig, value |-> 0]

\* Cookie::build(key).removal(): an empty value and an expiry in the past
RemovalCookie == [kind |-> "removal", sig |-> NoSig, value |-> 0]

\* what the client sends under a name
RecvKinds == {"none", "genuine", "tampered_value", "tampered_sig",
              "other_key"}

\* the cookie of a Cookie header line of each kind; the genuine one was
\* signed by this program for the value 1
ReceivedCookie(kind) ==
    CASE kind = "genuine" ->
            [kind |-> "cookie", sig |-> Mac(MasterKey, 1), value |-> 1]
      [] kind = "tampered_value" ->
            [kind |-> "cookie", sig |-> Mac(MasterKey, 1), value |-> 2]
      [] kind = "tampered_sig" ->
            [kind |-> "cookie", sig |-> NoSig, value |-> 1]
      [] kind = "other_key" ->
            [kind |-> "cookie", sig |-> Mac(OtherKey, 1), value |-> 1]
      [] OTHER -> NoCookie

EmptyJar == [original |-> [n \in CookieNames |-> NoCookie],
             delta |-> [n \in CookieNames |-> NoCookie]]

\* CookieJar::add
JarAdd(jar, name, cookie) == [jar EXCEPT !.delta[name] = cookie]

\* CookieJar::get: the delta before the originals
JarGet(jar, name) ==
    IF jar.delta[name].kind # "absent"
      THEN jar.delta[name]
      ELSE jar.original[name]

\* CookieJar::delta
JarDelta(jar) == {n \in CookieNames : jar.delta[n].kind # "absent"}

\* SignedJar::add: the value is stored behind its signature
SignedAdd(jar, key, name, value) ==
    JarAdd(jar, name, [kind |-> "cookie", sig |-> Mac(key, value),
                       value |-> value])

\* a verification that takes every cookie
SignedVerifyAny(key, cookie) == cookie.kind # "absent"

\* SignedJar::verify: the signature is that of the value under the key
SignedVerify(key, cookie) ==
    cookie.kind # "absent" /\ cookie.sig = Mac(key, cookie.value)

\* SignedJar::get: Some(value) is <<value>>, None is <<>>
SignedGet(jar, key, name) ==
    IF SignedVerify(key, JarGet(jar, name))
      THEN <<JarGet(jar, name).value>>
      ELSE <<>>

\* cookie.to_string().parse::<HeaderValue>(): None for a line break
SetCookieParse(name, cookie) ==
    IF HasLineBreak(cookie.value)
      THEN <<>>
      ELSE <<[name |-> name, sig |-> cookie.sig, value |-> cookie.value,
              kind |-> cookie.kind]>>

\* LuaResponse::into_response: the status, the headers of res.headers, one
\* set-cookie per cookie of the delta that parses as a header value, and
\* the body; a body that is no string gives an empty 500
IntoResponse(r, headers, jar) ==
    IF r.body.t = "string"
      THEN [status |-> StatusFromU16(r.status),
            headers |-> headers,
            cookies |-> {SetCookieParse(n, jar.delta[n])[1] :
                           n \in {m \in JarDelta(jar) :
                                    SetCookieParse(m, jar.delta[m]) # <<>>}},
            body |-> [t |-> "bytes", v |-> r.body.v]]
      ELSE [status |-> 500, headers |-> EmptyHeaders, cookies |-> {},
            body |-> [t |-> "bytes", v |-> 0]]

NoWrite == [op |-> "none", v |-> 0]
NoRead == [name |-> "", out |-> <<>>]

(***************************************************************************)
(* The cookie key of the VMs of the slot (runtime.rs, runtime/http.rs,     *)
(* serve.rs), over the runs of the program on one project.  A key is a     *)
(* number; a generated key is one that was not generated before.           *)
(***************************************************************************)
NoKey == 0

\* Key::generate, Key::try_generate
KeyGenerate(generated) == generated + 1

NoBuild == [stage |-> "none", key |-> NoKey]

\* set_cookie_key: the key of the row cookie_key, generated when the table
\* has none
CookieKeyLoad(row, generated) ==
    IF row = NoKey THEN KeyGenerate(generated) ELSE row

\* Serve::run: the key of the file cookie_secret, generated when the file
\* does not exist
CookieSecretLoad(file, generated) ==
    IF file = NoKey THEN KeyGenerate(generated) ELSE file

\* Serve::run: lua.set_named_registry_value("COOKIE_SECRET", key)
CookieSecretSet(key, secret) == secret

\* Serve::run: Runtime::new and runtime.start begin a run of the program
KeysRun ==
    /\ kPc = "off"
    /\ kRuns < MaxRuns
    /\ kRuns' = kRuns + 1
    /\ kPc' = "start"
    /\ UNCHANGED <<cookieKeyRow, cookieSecretFile, kGenerated, kSlot, kBuild,
                   kCookie, nonHttpVars, routeVars, sideButKeys>>

\* new_lua, called by start_lua or by restart_lua in the reload task:
\* http::register puts a generated key into the registry of the new VM
KeysRegister ==
    /\ kPc \in {"start", "built", "serving"}
    /\ kBuild.stage = "none"
    /\ kGenerated < MaxKeys
    /\ kGenerated' = kGenerated + 1
    /\ kBuild' = [stage |-> "registered", key |-> KeyGenerate(kGenerated)]
    /\ UNCHANGED <<cookieKeyRow, cookieSecretFile, kRuns, kPc, kSlot,
                   kCookie, nonHttpVars, routeVars, sideButKeys>>

\* new_lua: set_cookie_key puts the key of lg_internal into the registry,
\* and stores the key it generated
KeysSetCookieKey ==
    /\ kBuild.stage = "registered"
    /\ cookieKeyRow = NoKey => kGenerated < MaxKeys
    /\ cookieKeyRow' = CookieKeyLoad(cookieKeyRow, kGenerated)
    /\ kGenerated' = IF cookieKeyRow = NoKey THEN kGenerated + 1
                                              ELSE kGenerated
    /\ kBuild' = [stage |-> "keyed", key |-> cookieKeyRow']
    /\ UNCHANGED <<cookieSecretFile, kRuns, kPc, kSlot, kCookie,
                   nonHttpVars, routeVars, sideButKeys>>

\* set_lua after new_lua returned, in start_lua or in restart_lua
KeysSetLua ==
    /\ kBuild.stage = "keyed"
    /\ kSlot' = kBuild.key
    /\ kBuild' = NoBuild
    /\ kPc' = IF kPc = "start" THEN "built" ELSE kPc
    /\ UNCHANGED <<cookieKeyRow, cookieSecretFile, kGenerated, kRuns,
                   kCookie, nonHttpVars, routeVars, sideButKeys>>

\* Serve::run after start returned: the key of cookie_secret is read or
\* generated and written, and put into the registry of the VM of the slot;
\* then the server is started
KeysServe ==
    /\ kPc = "built"
    /\ cookieSecretFile = NoKey => kGenerated < MaxKeys
    /\ cookieSecretFile' = CookieSecretLoad(cookieSecretFile, kGenerated)
    /\ kGenerated' = IF cookieSecretFile = NoKey THEN kGenerated + 1
                                                  ELSE kGenerated
    /\ kSlot' = CookieSecretSet(kSlot, cookieSecretFile')
    /\ kPc' = "serving"
    /\ UNCHANGED <<cookieKeyRow, kRuns, kBuild, kCookie, nonHttpVars,
                   routeVars, sideButKeys>>

\* a handler assigns res.cookies.sid on the VM of the slot, and the client
\* keeps the cookie of the response
KeysSign(value) ==
    /\ kPc = "serving"
    /\ kCookie' = SignedAdd(EmptyJar, kSlot, "sid", value).delta["sid"]
    /\ UNCHANGED <<cookieKeyRow, cookieSecretFile, kGenerated, kRuns, kPc,
                   kSlot, kBuild, nonHttpVars, routeVars, sideButKeys>>

\* the program ends: its VMs are gone, what it persisted stays, and the
\* client keeps its cookie
KeysExit ==
    /\ kPc \in {"start", "built", "serving"}
    /\ kPc' = "off"
    /\ kSlot' = NoKey
    /\ kBuild' = NoBuild
    /\ UNCHANGED <<cookieKeyRow, cookieSecretFile, kGenerated, kRuns,
                   kCookie, nonHttpVars, routeVars, sideButKeys>>

\* a project that was never served
InitKeys ==
    /\ cookieKeyRow = NoKey
    /\ cookieSecretFile = NoKey
    /\ kGenerated = 0
    /\ kRuns = 0
    /\ kPc = "off"
    /\ kSlot = NoKey
    /\ kBuild = NoBuild
    /\ kCookie = NoCookie

(***************************************************************************)
(* The end of the process (main.rs, command.rs, runtime.rs): the tasks on  *)
(* the tracker, the cancellation token and the waits of main.              *)
(***************************************************************************)
Tasks == {"server", "reload", "shutdown"}
NoTasks == [t \in Tasks |-> "none"]

\* TaskTracker::wait on a closed tracker returns when no task is left
TrackerEmpty(tasks) == \A t \in Tasks : tasks[t] \in {"none", "done"}

Exits == {"exit0", "exit1"}

\* args.run(..).await?: the command failed before it waited (the error of
\* the initial start): main returns the error
ExitStartFail ==
    /\ sMain = "run"
    /\ sMain' = "exit1"
    /\ UNCHANGED <<sToken, sTasks, sTimer, sSlotHook, sBuild, sCancelHook,
                   sCalls, nonHttpVars, routeVars, sideButExit>>

\* Serve::run returned Ok: start has spawned the reload task (when reload
\* is enabled) and the shutdown task, Serve::run the server task; then
\* Command::run closes the tracker and waits for it
ExitServe(reload, hook) ==
    /\ sMain = "run"
    /\ sTasks' = [t \in Tasks |->
                    IF t = "reload" /\ ~reload THEN "none" ELSE "running"]
    /\ sSlotHook' = hook
    /\ sMain' = "command_wait"
    /\ UNCHANGED <<sToken, sTimer, sBuild, sCancelHook, sCalls, nonHttpVars,
                   routeVars, sideButExit>>

\* main: ctrl-c, token.cancel()
ExitCancel ==
    /\ sMain \notin Exits
    /\ ~sToken
    /\ sToken' = TRUE
    /\ sCancelHook' = sSlotHook
    /\ UNCHANGED <<sMain, sTasks, sTimer, sSlotHook, sBuild, sCalls,
                   nonHttpVars, routeVars, sideButExit>>

\* the reload task received a "runtime" notification: restart_lua starts
\* new_lua
ExitReloadBuild ==
    /\ sTasks["reload"] = "running"
    /\ ~sToken
    /\ ~sBuild
    /\ sBuild' = TRUE
    /\ UNCHANGED <<sToken, sMain, sTasks, sTimer, sSlotHook, sCancelHook,
                   sCalls, nonHttpVars, routeVars, sideButExit>>

\* restart_lua: new_lua returned and set_lua installs the VM, which
\* defines on_shutdown or does not
ExitReloadSetLua(hook) ==
    /\ sBuild
    /\ sBuild' = FALSE
    /\ sSlotHook' = hook
    /\ UNCHANGED <<sToken, sMain, sTasks, sTimer, sCancelHook, sCalls,
                   nonHttpVars, routeVars, sideButExit>>

\* watch(token, ..): the detector is dropped, and with it the sender of
\* the notifications, once the token has fired
WatchClosed(token) == token

\* a loop that goes on when recv returns None
ReloadLoopNeverEnds(closed) == FALSE

\* the reload task: while let Some(..) = rx.recv().await ends with the
\* None of a closed channel
ReloadLoopEnds(closed) == closed

\* the reload task: rx.recv() returned None after the detector was dropped
ExitReloadEnd ==
    /\ sTasks["reload"] = "running"
    /\ ReloadLoopEnds(WatchClosed(sToken))
    /\ ~sBuild
    /\ sTasks' = [sTasks EXCEPT !["reload"] = "done"]
    /\ UNCHANGED <<sToken, sMain, sTimer, sSlotHook, sBuild, sCancelHook,
                   sCalls, nonHttpVars, routeVars, sideButExit>>

\* the server task: the graceful shutdown of axum::serve ends with the
\* token
ExitServerEnd ==
    /\ sTasks["server"] = "running"
    /\ sToken
    /\ sTasks' = [sTasks EXCEPT !["server"] = "done"]
    /\ UNCHANGED <<sToken, sMain, sTimer, sSlotHook, sBuild, sCancelHook,
                   sCalls, nonHttpVars, routeVars, sideButExit>>

HookOutcomes == {"returns", "raises", "never returns"}

\* a shutdown task that does not wait for the token
ShutdownTaskEager(token) == TRUE

\* the shutdown task: token.cancelled().await comes first
ShutdownTaskAwake(token) == token

\* the shutdown task after the token: Runtime::shutdown looks on_shutdown
\* up in the VM of the slot and calls it; an error is logged, and a
\* function that does not return keeps the task
ExitShutdown(outcome) ==
    /\ sTasks["shutdown"] = "running"
    /\ ShutdownTaskAwake(sToken)
    /\ sCalls' = IF sSlotHook THEN sCalls + 1 ELSE sCalls
    /\ sTasks' = [sTasks EXCEPT !["shutdown"] =
                    IF sSlotHook /\ outcome = "never returns"
                      THEN "stuck" ELSE "done"]
    /\ UNCHANGED <<sToken, sMain, sTimer, sSlotHook, sBuild, sCancelHook,
                   nonHttpVars, routeVars, sideButExit>>

\* Command::run: context.tracker.wait().await returned and Ok(()) goes to
\* main, which closes the tracker and awaits token.cancelled()
ExitCommandWait ==
    /\ sMain = "command_wait"
    /\ TrackerEmpty(sTasks)
    /\ sMain' = "main_cancelled"
    /\ UNCHANGED <<sToken, sTasks, sTimer, sSlotHook, sBuild, sCancelHook,
                   sCalls, nonHttpVars, routeVars, sideButExit>>

\* main: token.cancelled().await returned; timeout(.., tracker.wait())
ExitMainCancelled ==
    /\ sMain = "main_cancelled"
    /\ sToken
    /\ sMain' = "main_timeout"
    /\ sTimer' = TRUE
    /\ UNCHANGED <<sToken, sTasks, sSlotHook, sBuild, sCancelHook, sCalls,
                   nonHttpVars, routeVars, sideButExit>>

\* main: the wait returned first and main returns Ok(()), or the timeout
\* elapsed first and `?` returns its error
ExitMainTimeout ==
    /\ sMain = "main_timeout"
    /\ sMain' = IF TrackerEmpty(sTasks) THEN "exit0" ELSE "exit1"
    /\ sTimer' = FALSE
    /\ UNCHANGED <<sToken, sTasks, sSlotHook, sBuild, sCancelHook, sCalls,
                   nonHttpVars, routeVars, sideButExit>>

\* main before args.run
InitExit ==
    /\ sToken = FALSE
    /\ sMain = "run"
    /\ sTasks = NoTasks
    /\ sTimer = FALSE
    /\ sSlotHook = FALSE
    /\ sBuild = FALSE
    /\ sCancelHook = FALSE
    /\ sCalls = 0

(***************************************************************************)
(* The database actor (database.rs): a thread that owns the connection and *)
(* takes Execute and Close messages from an unbounded channel.  A closure  *)
(* that succeeds changes the connection and returns what it then holds; a  *)
(* closure that fails returns its error.                                   *)
(***************************************************************************)
Closures == {"ok", "err"}
ClosureError == 7

Pending == [t |-> "pending", v |-> 0]
ConnectionClosed == [t |-> "connection closed", v |-> 0]
CloseOk == [t |-> "close ok", v |-> 0]
CloseError == [t |-> "close error", v |-> 0]

\* function(conn): the value of the closure on the connection
ClosureResult(fn, count) ==
    IF fn = "ok" THEN [t |-> "ok", v |-> count + 1]
                 ELSE [t |-> "err", v |-> ClosureError]

\* a channel that hands the newest message out first
ChannelSendFront(queue, id) == <<id>> \o queue

\* UnboundedSender::send
ChannelSend(queue, id) == Append(queue, id)

\* a receiver that is dropped with its messages left waiting
ChannelDropKeep(out, queue) == out

\* the receiver is dropped with the loop: the messages left in the channel
\* are dropped with their reply senders, and every receiver.await is
\* answered by RecvError, which call maps to ConnectionClosed and close to
\* Ok(())
ChannelDrop(out, queue) ==
    [id \in DOMAIN out |->
        IF \E i \in DOMAIN queue : queue[i] = id
          THEN IF dbFns[id] = "close" THEN CloseOk ELSE ConnectionClosed
          ELSE out[id]]

\* a loop that ends on every Close
LoopAfterCloseEnds(closed) == "stopped"

\* event_loop on Close: break after conn.close() returned Ok, and
\* conn = c, the loop going on, after it returned Err((c, e))
LoopAfterClose(closed) == IF closed THEN "stopped" ELSE "running"

\* Database::call, Database::blocking_call: the closure is sent with the
\* sender of its reply; a send into the closed channel is ConnectionClosed
DatabaseCall(fn) ==
    /\ Len(dbFns) < MaxSends
    /\ dbFns' = Append(dbFns, fn)
    /\ IF dbLoop = "running"
         THEN /\ dbQueue' = ChannelSend(dbQueue, Len(dbFns'))
              /\ dbOut' = Append(dbOut, Pending)
         ELSE /\ dbOut' = Append(dbOut, ConnectionClosed)
              /\ UNCHANGED dbQueue
    /\ UNCHANGED <<dbLoop, dbCount, dbRun, nonHttpVars, routeVars, sideButActor>>

\* Database::close: a send into the closed channel is Ok(())
DatabaseClose ==
    /\ Len(dbFns) < MaxSends
    /\ dbFns' = Append(dbFns, "close")
    /\ IF dbLoop = "running"
         THEN /\ dbQueue' = ChannelSend(dbQueue, Len(dbFns'))
              /\ dbOut' = Append(dbOut, Pending)
         ELSE /\ dbOut' = Append(dbOut, CloseOk)
              /\ UNCHANGED dbQueue
    /\ UNCHANGED <<dbLoop, dbCount, dbRun, nonHttpVars, routeVars, sideButActor>>

\* event_loop: one message is received and handled.  Execute runs the
\* closure, which sends its value to its caller; Close closes the
\* connection: the loop ends when that succeeded, and keeps the connection
\* when it failed
EventLoop(closed) ==
    /\ dbLoop = "running"
    /\ dbQueue # <<>>
    /\ LET id == Head(dbQueue)
           fn == dbFns[id]
       IN  IF fn \in Closures
             THEN /\ dbOut' = [dbOut EXCEPT ![id] = ClosureResult(fn, dbCount)]
                  /\ dbCount' = IF fn = "ok" THEN dbCount + 1 ELSE dbCount
                  /\ dbRun' = Append(dbRun, id)
                  /\ dbQueue' = Tail(dbQueue)
                  /\ UNCHANGED dbLoop
             ELSE IF closed
               THEN /\ dbOut' = ChannelDrop([dbOut EXCEPT ![id] = CloseOk],
                                            Tail(dbQueue))
                    /\ dbQueue' = <<>>
                    /\ dbLoop' = LoopAfterClose(closed)
                    /\ UNCHANGED <<dbCount, dbRun>>
               ELSE /\ dbOut' = [dbOut EXCEPT ![id] = CloseError]
                    /\ dbQueue' = Tail(dbQueue)
                    /\ dbLoop' = LoopAfterClose(closed)
                    /\ UNCHANGED <<dbCount, dbRun>>
    /\ UNCHANGED <<dbFns, nonHttpVars, routeVars, sideButActor>>

\* Database::open: the thread runs event_loop on the open connection
InitDatabase ==
    /\ dbQueue = <<>>
    /\ dbLoop = "running"
    /\ dbCount = 0
    /\ dbFns = <<>>
    /\ dbOut = <<>>
    /\ dbRun = <<>>

(***************************************************************************)
(* The websocket handed to the script (runtime/http.rs, LuaWebSocket).     *)
(* A frame is a kind with its data; what the stream yields is a frame or a *)
(* read error.  A value of the script is a string, a table with the fields *)
(* type and data, nil, or (as the result of a call) a raised error.        *)
(***************************************************************************)
Frame(k, d) == [k |-> k, d |-> d]

\* data whose bytes are not the UTF-8 encoding of any text, which a binary,
\* ping or pong frame may carry
InvalidUtf8 == "0xFF"

\* LuaString::to_str, and the String taken by t.get::<String>("data")
Utf8(d) == d # InvalidUtf8
Frames ==
    {Frame("text", "a"), Frame("binary", "a"), Frame("binary", InvalidUtf8),
     Frame("ping", "b"), Frame("close", "")}
ReadError == Frame("read error", "")

WsString(s) == [t |-> "string", ty |-> "", data |-> s]
WsTable(ty, d) == [t |-> "table", ty |-> ty, data |-> d]
WsNil == [t |-> "nil", ty |-> "", data |-> ""]
WsRaised == [t |-> "error", ty |-> "", data |-> ""]
WsNothing == [t |-> "nothing", ty |-> "", data |-> ""]
WsValues ==
    {WsString("a"), WsTable("binary", "a"), WsTable("close", ""),
     WsTable("bogus", "a")}

\* message_from_lua: the frame of a value, ReadError standing for Err
MessageFromLua(value) ==
    IF value.t = "string" /\ Utf8(value.data)
      THEN Frame("text", value.data)
    ELSE IF value.t = "table"
              /\ value.ty \in {"binary", "ping", "pong", "close"}
              /\ Utf8(value.data)
      THEN Frame(value.ty, value.data)
    ELSE ReadError

\* a conversion that hands a close frame to the script as nil
LuaFromMessageCloseNil(frame) ==
    IF frame.k = "text" THEN WsString(frame.d)
    ELSE IF frame.k = "close" THEN WsNil
    ELSE WsTable(frame.k, frame.d)

\* lua_from_message
LuaFromMessage(frame) ==
    IF frame.k = "text" THEN WsString(frame.d)
                        ELSE WsTable(frame.k, frame.d)

\* the peer's frame arrives, or reading the transport fails
WsArrive(item) ==
    /\ ~wsEnded
    /\ Len(wsArrived) < MaxFrames
    /\ wsStream' = Append(wsStream, item)
    /\ wsArrived' = Append(wsArrived, item)
    /\ UNCHANGED <<wsEnded, wsOut, wsGot, wsRet, wsCalls, nonHttpVars,
                   routeVars, sideButWs>>

\* the stream ends
WsEnd ==
    /\ ~wsEnded
    /\ wsEnded' = TRUE
    /\ UNCHANGED <<wsStream, wsOut, wsArrived, wsGot, wsRet, wsCalls,
                   nonHttpVars, routeVars, sideButWs>>

\* ws:recv(): socket.recv().await returns once the stream holds an item
\* or has ended
WsRecv ==
    /\ wsCalls < MaxCalls
    /\ wsStream # <<>> \/ wsEnded
    /\ wsCalls' = wsCalls + 1
    /\ IF wsStream = <<>>
         THEN /\ wsGot' = Append(wsGot, WsNil)
              /\ UNCHANGED wsStream
         ELSE /\ wsGot' = Append(wsGot,
                     IF Head(wsStream) = ReadError
                       THEN WsRaised
                       ELSE LuaFromMessage(Head(wsStream)))
              /\ wsStream' = Tail(wsStream)
    /\ UNCHANGED <<wsEnded, wsOut, wsArrived, wsRet, nonHttpVars, routeVars,
                   sideButWs>>

\* ws:send(value): message_from_lua, then socket.send, whose write
\* succeeds or fails
WsSend(value, written) ==
    /\ wsCalls < MaxCalls
    /\ wsCalls' = wsCalls + 1
    /\ LET message == MessageFromLua(value)
       IN  IF message = ReadError
             THEN /\ wsRet' = [ret |-> WsRaised, written |-> FALSE]
                  /\ UNCHANGED wsOut
           ELSE IF written
             THEN /\ wsRet' = [ret |-> WsNothing, written |-> TRUE]
                  /\ wsOut' = Append(wsOut, message)
           ELSE /\ wsRet' = [ret |-> WsRaised, written |-> FALSE]
                /\ UNCHANGED wsOut
    /\ UNCHANGED <<wsStream, wsEnded, wsArrived, wsGot, nonHttpVars,
                   routeVars, sideButWs>>

\* LuaWebSocket::new on the upgraded socket
InitWs ==
    /\ wsStream = <<>>
    /\ wsEnded = FALSE
    /\ wsOut = <<>>
    /\ wsArrived = <<>>
    /\ wsGot = <<>>
    /\ wsRet = [ret |-> WsNothing, written |-> FALSE]
    /\ wsCalls = 0

(***************************************************************************)
(* The file actor (runtime/file.rs): a task that owns the file and takes   *)
(* (message, reply sender) pairs from a channel of capacity FileCap.  The  *)
(* operations of the model are a write of one byte, a seek to the current  *)
(* position, which replies the position, and close.                        *)
(***************************************************************************)
FileCap == 1
FileOps == {"write", "seek", "close"}

FileNil == [t |-> "nil", v |-> 0]
FileTrue == [t |-> "true", v |-> 0]
FileError == [t |-> "error", v |-> 0]
FilePending == [t |-> "pending", v |-> 0]
FileInteger(n) == [t |-> "integer", v |-> n]

\* an actor whose loop goes on after Close
ActorNeverBreaks(op) == FALSE

\* file_actor: Message::Close => { reply; break }
ActorBreaks(op) == op = "close"

\* file_actor: the value computed for a message on the file
ActorResult(op, pos) ==
    IF op = "write" THEN FileNil
    ELSE IF op = "seek" THEN FileInteger(pos)
    ELSE FileTrue

\* a method of LuaFile calls LuaFile::send, which creates the reply
\* channel and begins tx.send
LuaFileCall(op) ==
    /\ fHandle = "held"
    /\ Len(fOps) < MaxOps
    /\ fOps' = Append(fOps, op)
    /\ fPc' = Append(fPc, "sending")
    /\ fReplies' = Append(fReplies, 0)
    /\ fOut' = Append(fOut, FilePending)
    /\ UNCHANGED <<fQueue, fLoop, fPos, fHandle, fArrived, fDone,
                   nonHttpVars, routeVars, sideButFile>>

\* LuaFile::send: tx.send(..).await ends, with the message in the channel
\* once there is room (the senders that wait are served in the order they
\* came), or with an error when the receiver has been dropped
LuaFileSend(id) ==
    /\ id \in DOMAIN fPc
    /\ fPc[id] = "sending"
    /\ \A j \in 1..(id - 1) : fPc[j] # "sending"
    /\ IF fLoop = "stopped"
         THEN /\ fPc' = [fPc EXCEPT ![id] = "returned"]
              /\ fOut' = [fOut EXCEPT ![id] = FileError]
              /\ UNCHANGED <<fQueue, fArrived>>
         ELSE /\ Len(fQueue) < FileCap
              /\ fQueue' = Append(fQueue, id)
              /\ fArrived' = Append(fArrived, id)
              /\ fPc' = [fPc EXCEPT ![id] = "awaiting"]
              /\ UNCHANGED fOut
    /\ UNCHANGED <<fLoop, fPos, fHandle, fOps, fReplies, fDone, nonHttpVars,
                   routeVars, sideButFile>>

\* file_actor: one message is received and handled, and its reply sent;
\* after Close the loop ends and the receiver is dropped with what the
\* channel holds, whose callers' reply.await fails
FileActor ==
    /\ fLoop = "running"
    /\ fQueue # <<>>
    /\ LET id == Head(fQueue)
           op == fOps[id]
           left == {fQueue[i] : i \in 2..Len(fQueue)}
       IN  /\ fReplies' = [fReplies EXCEPT ![id] = @ + 1]
           /\ fDone' = Append(fDone, id)
           /\ fPos' = IF op = "write" THEN fPos + 1 ELSE fPos
           /\ IF ActorBreaks(op)
                THEN /\ fLoop' = "stopped"
                     /\ fQueue' = <<>>
                     /\ fOut' = [j \in DOMAIN fOut |->
                                   IF j = id THEN ActorResult(op, fPos)
                                   ELSE IF j \in left THEN FileError
                                   ELSE fOut[j]]
                     /\ fPc' = [j \in DOMAIN fPc |->
                                   IF j = id \/ j \in left THEN "returned"
                                                            ELSE fPc[j]]
                ELSE /\ fQueue' = Tail(fQueue)
                     /\ fOut' = [fOut EXCEPT ![id] = ActorResult(op, fPos)]
                     /\ fPc' = [fPc EXCEPT ![id] = "returned"]
                     /\ UNCHANGED fLoop
    /\ UNCHANGED <<fHandle, fOps, fArrived, nonHttpVars, routeVars,
                   sideButFile>>

\* the script lets go of the handle and it is collected: no call borrows
\* it any more, and the sender is dropped
LuaFileDrop ==
    /\ fHandle = "held"
    /\ \A id \in DOMAIN fPc : fPc[id] = "returned"
    /\ fHandle' = "dropped"
    /\ UNCHANGED <<fQueue, fLoop, fPos, fOps, fPc, fReplies, fOut, fArrived,
                   fDone, nonHttpVars, routeVars, sideButFile>>

\* file_actor: rx.recv() returns None once every sender is gone
FileActorEnd ==
    /\ fLoop = "running"
    /\ fHandle = "dropped"
    /\ fQueue = <<>>
    /\ fLoop' = "stopped"
    /\ UNCHANGED <<fQueue, fPos, fHandle, fOps, fPc, fReplies, fOut,
                   fArrived, fDone, nonHttpVars, routeVars, sideButFile>>

\* LuaFile::spawn
InitFile ==
    /\ fQueue = <<>>
    /\ fLoop = "running"
    /\ fPos = 0
    /\ fHandle = "held"
    /\ fOps = <<>>
    /\ fPc = <<>>
    /\ fReplies = <<>>
    /\ fOut = <<>>
    /\ fArrived = <<>>
    /\ fDone = <<>>

(***************************************************************************)
(* task.timeout (runtime/task.rs): a select over a sleep and the call of   *)
(* fn, both polled by the task of the caller.  Time is counted in ticks;   *)
(* fn runs only while it is polled, for some ticks, and then has completed *)
(* (returned or raised) or is suspended until some instant.                *)
(***************************************************************************)
\* a timer that is ready whenever it is polled
SleepElapsedAlways(now, deadline) == TRUE

\* tokio::time::sleep polled at now
SleepElapsed(now, deadline) == now >= deadline

\* task.timeout(seconds, fn) is called: the sleep is created
TaskTimeoutCall(seconds) ==
    /\ tPc = "idle"
    /\ tPc' = "pending"
    /\ tDeadline' = tNow + seconds
    /\ tReady' = tNow
    /\ tFn' = "none"
    /\ UNCHANGED <<tNow, nonHttpVars, routeVars, sideButTask>>

\* time passes while the select is pending
TaskClock ==
    /\ tPc = "pending"
    /\ tNow < MaxTime
    /\ tNow' = tNow + 1
    /\ UNCHANGED <<tPc, tDeadline, tReady, tFn, nonHttpVars, routeVars,
                   sideButTask>>

\* the branch of select! for fn: `_ = func.call_async::<()>(()) => Ok(())`,
\* whatever the call of fn gave
SelectFn(result) == "returned"

\* tokio::select! is polled (at the call, and when the timer or fn woke
\* the task): the two branches are polled in an order chosen at random,
\* and the first that is ready decides.  Polling fn runs it for `ran`
\* ticks, after which it has completed, with Ok or with the error it
\* raised, or is suspended for `wait` ticks.
TaskTimeoutPoll(timerFirst, ran, completes, wait) ==
    /\ tPc = "pending"
    /\ SleepElapsed(tNow, tDeadline) \/ tNow >= tReady
    /\ IF timerFirst /\ SleepElapsed(tNow, tDeadline)
         THEN /\ tPc' = "timeout"
              /\ UNCHANGED <<tNow, tReady, tFn>>
         ELSE IF tNow >= tReady
           THEN /\ tNow + ran <= MaxTime
                /\ tNow' = tNow + ran
                /\ IF completes
                     THEN /\ \E result \in {"ok", "err"} :
                               /\ tFn' = result
                               /\ tPc' = SelectFn(result)
                          /\ UNCHANGED tReady
                     ELSE /\ tReady' = tNow' + wait
                          /\ tPc' = IF ~timerFirst
                                       /\ SleepElapsed(tNow', tDeadline)
                                      THEN "timeout"
                                      ELSE "pending"
                          /\ UNCHANGED tFn
           ELSE /\ ran = 0 /\ ~completes /\ wait = 1
                /\ tPc' = IF SleepElapsed(tNow, tDeadline) THEN "timeout"
                                                          ELSE "pending"
                /\ UNCHANGED <<tNow, tReady, tFn>>
    /\ UNCHANGED <<tDeadline, nonHttpVars, routeVars, sideButTask>>

InitTask ==
    /\ tPc = "idle"
    /\ tNow = 0
    /\ tDeadline = 0
    /\ tReady = 0
    /\ tFn = "none"

(***************************************************************************)
(* A pairs() iteration beside the other calls of its consumer              *)
(* (global.rs, database.rs).  The closure of pairs runs on the thread of   *)
(* the database actor and sends the rows with blocking_send into a channel *)
(* of capacity PairsCap; the consumer is one script task, which pulls,     *)
(* calls the database and waits for the reply, or drops the iterator.      *)
(***************************************************************************)
\* GlobalTable::pairs over a table of n rows: the channel is made, the task
\* is spawned and the receiver goes to the consumer
IterPairs(n) ==
    /\ iProd = "none"
    /\ iProd' = "spawned"
    /\ iTodo' = n
    /\ iRx' = "held"
    /\ UNCHANGED <<iQueue, iDb, iChan, iCall, iCalls, iPulls,
                   nonHttpVars, routeVars, sideButIter>>

\* the spawned task: conn.call(closure) sends Execute to the actor
IterTaskCall ==
    /\ iProd = "spawned"
    /\ iDb = "running"
    /\ iQueue' = Append(iQueue, "pairs")
    /\ iProd' = "queued"
    /\ UNCHANGED <<iDb, iTodo, iChan, iRx, iCall, iCalls, iPulls,
                   nonHttpVars, routeVars, sideButIter>>

\* event_loop: receiver.blocking_recv() and f(&mut conn); the thread is not
\* inside a closure.  The closure of pairs prepares and runs the SELECT,
\* a closure of call runs and sends its reply
IterEventLoop ==
    /\ iDb = "running"
    /\ iProd # "running"
    /\ iQueue # <<>>
    /\ iQueue' = Tail(iQueue)
    /\ IF Head(iQueue) = "pairs"
         THEN /\ iProd' = IF iTodo = 0 THEN "returned" ELSE "running"
              /\ UNCHANGED iCall
         ELSE /\ iCall' = "ok"
              /\ UNCHANGED iProd
    /\ UNCHANGED <<iDb, iTodo, iChan, iRx, iCalls, iPulls, nonHttpVars,
                   routeVars, sideButIter>>

\* the closure of pairs: tx.blocking_send(do_pairs(row)).unwrap().  With
\* the receiver dropped the send is an Err and unwrap panics on the thread
\* of the actor: the thread unwinds out of event_loop, and the channel of
\* the actor is dropped with the messages in it and their reply senders.
\* Otherwise the send waits for room; after the last row the closure
\* returns and the sender is dropped
IterSend ==
    /\ iProd = "running"
    /\ IF iRx = "dropped"
         THEN /\ iProd' = "panicked"
              /\ iDb' = "dead"
              /\ iQueue' = <<>>
              /\ iCall' = IF iCall = "waiting" THEN "closed" ELSE iCall
              /\ UNCHANGED <<iTodo, iChan>>
         ELSE /\ iChan < PairsCap
              /\ iChan' = iChan + 1
              /\ iTodo' = iTodo - 1
              /\ iProd' = IF iTodo = 1 THEN "returned" ELSE "running"
              /\ UNCHANGED <<iDb, iQueue, iCall>>
    /\ UNCHANGED <<iRx, iCalls, iPulls, nonHttpVars, routeVars,
                   sideButIter>>

\* the consumer pulls: recv().await gives a pair, or None when the channel
\* is empty and the sender is dropped
IterPull ==
    /\ iRx = "held"
    /\ iCall # "waiting"
    /\ IF iChan > 0
         THEN /\ iChan' = iChan - 1
              /\ iPulls' = iPulls + 1
              /\ UNCHANGED iRx
         ELSE /\ iProd = "returned"
              /\ iRx' = "ended"
              /\ UNCHANGED <<iChan, iPulls>>
    /\ UNCHANGED <<iQueue, iDb, iProd, iTodo, iCall, iCalls, nonHttpVars,
                   routeVars, sideButIter>>

\* the consumer drops the iterator: the receiver is dropped with the pairs
\* in the channel
IterDrop ==
    /\ iRx = "held"
    /\ iCall # "waiting"
    /\ iRx' = "dropped"
    /\ iChan' = 0
    /\ UNCHANGED <<iQueue, iDb, iProd, iTodo, iCall, iCalls, iPulls,
                   nonHttpVars, routeVars, sideButIter>>

\* Database::call by the consumer: the send fails with ConnectionClosed
\* when the receiver of the actor is gone, else the caller waits for the
\* reply
IterCall ==
    /\ iCall # "waiting"
    /\ iCalls < MaxCalls
    /\ iCalls' = iCalls + 1
    /\ IF iDb = "running"
         THEN iQueue' = Append(iQueue, "call") /\ iCall' = "waiting"
         ELSE iCall' = "closed" /\ UNCHANGED iQueue
    /\ UNCHANGED <<iDb, iProd, iTodo, iChan, iRx, iPulls, nonHttpVars,
                   routeVars, sideButIter>>

InitIter ==
    /\ iQueue = <<>>
    /\ iDb = "running"
    /\ iProd = "none"
    /\ iTodo = 0
    /\ iChan = 0
    /\ iRx = "none"
    /\ iCall = "none"
    /\ iCalls = 0
    /\ iPulls = 0

NextIter ==
    \/ \E n \in 0..MaxRows : IterPairs(n)
    \/ IterTaskCall
    \/ IterEventLoop
    \/ IterSend
    \/ IterPull
    \/ IterDrop
    \/ IterCall

(***************************************************************************)
(* One LuaWebSocket used by two script tasks (http.rs).  send and recv are *)
(* registered with add_async_method_mut: each call takes the exclusive     *)
(* borrow of the userdata when it begins and holds it until its future has *)
(* completed; a call that finds the userdata borrowed fails at once.       *)
(***************************************************************************)
\* the peer delivers a frame
BorrowArrive ==
    /\ bArrived < MaxFrames
    /\ bArrived' = bArrived + 1
    /\ bStream' = bStream + 1
    /\ UNCHANGED <<bHolder, bRecv, bSend, bOut, nonHttpVars, routeVars,
                   sideButBorrow>>

\* ws:recv() is called by the receiving task: the borrow, then
\* this.socket.recv().await, which returns at once when a frame is there
BorrowRecv ==
    /\ bRecv # "pending"
    /\ IF bHolder # "none"
         THEN /\ bRecv' = "error"
              /\ UNCHANGED <<bHolder, bStream>>
         ELSE IF bStream > 0
           THEN /\ bRecv' = "got"
                /\ bStream' = bStream - 1
                /\ UNCHANGED bHolder
           ELSE /\ bRecv' = "pending"
                /\ bHolder' = "recv"
                /\ UNCHANGED bStream
    /\ UNCHANGED <<bArrived, bSend, bOut, nonHttpVars, routeVars,
                   sideButBorrow>>

\* a pending recv is woken by a frame: it returns and its borrow ends
BorrowRecvWake ==
    /\ bRecv = "pending"
    /\ bStream > 0
    /\ bStream' = bStream - 1
    /\ bRecv' = "got"
    /\ bHolder' = "none"
    /\ UNCHANGED <<bArrived, bSend, bOut, nonHttpVars, routeVars,
                   sideButBorrow>>

\* ws:send(message) is called by the sending task: the borrow, then
\* this.socket.send(message).await, which writes at once or waits for the
\* connection to take the frame
BorrowSend(written) ==
    /\ bSend # "pending"
    /\ bOut < MaxCalls
    /\ IF bHolder # "none"
         THEN /\ bSend' = "error"
              /\ UNCHANGED <<bHolder, bOut>>
         ELSE IF written
           THEN /\ bSend' = "ok"
                /\ bOut' = bOut + 1
                /\ UNCHANGED bHolder
           ELSE /\ bSend' = "pending"
                /\ bHolder' = "send"
                /\ UNCHANGED bOut
    /\ UNCHANGED <<bStream, bArrived, bRecv, nonHttpVars, routeVars,
                   sideButBorrow>>

\* a pending send is written: it returns and its borrow ends
BorrowSendDone ==
    /\ bSend = "pending"
    /\ bSend' = "ok"
    /\ bOut' = bOut + 1
    /\ bHolder' = "none"
    /\ UNCHANGED <<bStream, bArrived, bRecv, nonHttpVars, routeVars,
                   sideButBorrow>>

InitBorrow ==
    /\ bHolder = "none"
    /\ bStream = 0
    /\ bArrived = 0
    /\ bRecv = "idle"
    /\ bSend = "idle"
    /\ bOut = 0

NextBorrow ==
    \/ BorrowArrive
    \/ BorrowRecv
    \/ BorrowRecvWake
    \/ \E written \in BOOLEAN : BorrowSend(written)
    \/ BorrowSendDone

InitSide ==
    /\ InitBorrow
    /\ InitKeys
    /\ InitExit
    /\ InitDatabase
    /\ InitWs
    /\ InitFile
    /\ InitTask
    /\ InitIter

(***************************************************************************)
(* handle_request (serve.rs), one request at a time.                       *)
(***************************************************************************)
\* routes[key] = function
RoutesNewIndex(key) ==
    /\ hPc = "idle"
    /\ routes' = PathTreeInsert(routes, key)
    /\ UNCHANGED <<notFound, requestHttpVars, nonHttpVars,
                   sideVars>>

\* routes.not_found = function
RoutesSetNotFound ==
    /\ hPc = "idle"
    /\ notFound = "default"
    /\ notFound' = "custom"
    /\ UNCHANGED <<routes, requestHttpVars, nonHttpVars,
                   sideVars>>

\* routes.find, create_request, new_response: a translation error is the
\* response; otherwise the handler is called with req and res, and the jar
\* holds the cookies of the request as originals
HttpArrive(path, recv, bad) ==
    /\ hPc = "idle"
    /\ hPath' = path
    /\ hFound' = LET found == RoutesFind(routes, path)
                     req == RouteAndParams(found, path)
                 IN  [handler |-> found.handler, route |-> req.route,
                      params |-> req.params]
    /\ cRecv' = recv
    /\ IF bad
         THEN /\ hPc' = "sent"
              /\ hOut' = ErrorResponse(TranslateError)
              /\ hErr' = TranslateError
              /\ UNCHANGED <<hRes, resHeaders, hJar>>
         ELSE /\ hPc' = "handler"
              /\ hRes' = NewResponse
              /\ resHeaders' = EmptyHeaders
              /\ hJar' = [original |-> [n \in CookieNames |->
                                         ReceivedCookie(recv[n])],
                         delta |-> [n \in CookieNames |-> NoCookie]]
              /\ UNCHANGED <<hOut, hErr>>
    /\ UNCHANGED <<routes, notFound, hAssigned, cWritten, cRead,
                   hFailedBefore, nonHttpVars,
                   sideVars>>

\* the default not_found handler: res.status = 404, and it returns
HandlerNotFound ==
    /\ hPc = "handler"
    /\ hFound.handler = NotFoundHandler
    /\ notFound = "default"
    /\ hRes' = [hRes EXCEPT !.status = 404]
    /\ hOut' = IntoResponse(hRes', resHeaders, hJar)
    /\ hPc' = "sent"
    /\ UNCHANGED <<routes, notFound, hFound, hPath, resHeaders, hJar, hAssigned,
                   cWritten, cRecv, cRead, hFailedBefore, hErr, nonHttpVars,
                   sideVars>>

\* the handler is a function of the script
ScriptHandler ==
    /\ hPc = "handler"
    /\ hFound.handler = NotFoundHandler => notFound = "custom"

\* res.status = status
HandlerSetStatus(status) ==
    /\ ScriptHandler
    /\ hRes.status # status
    /\ hRes' = [hRes EXCEPT !.status = status]
    /\ UNCHANGED <<routes, notFound, hPc, hFound, hPath, resHeaders, hJar, hAssigned,
                   cWritten, cRecv, cRead, hOut, hFailedBefore, hErr, nonHttpVars,
                   sideVars>>

\* res.body = body
HandlerSetBody(body) ==
    /\ ScriptHandler
    /\ hRes.body # body
    /\ hRes' = [hRes EXCEPT !.body = body]
    /\ UNCHANGED <<routes, notFound, hPc, hFound, hPath, resHeaders, hJar, hAssigned,
                   cWritten, cRecv, cRead, hOut, hFailedBefore, hErr, nonHttpVars,
                   sideVars>>

\* res.headers[name] = value (LuaHeaders __newindex): an invalid name or
\* value raises, and the handler lets the error through
HeaderAssign(name, value) ==
    /\ ScriptHandler
    /\ Len(hAssigned) < MaxHeaderWrites
    /\ IF HeaderNameFromBytes(name) = <<>> \/ HeaderValueParse(value) = <<>>
         THEN /\ hOut' = ErrorResponse(HeaderError)
              /\ hPc' = "sent"
              /\ hErr' = HeaderError
              /\ UNCHANGED <<resHeaders, hAssigned>>
         ELSE /\ resHeaders' = HeaderMapAppend(resHeaders,
                                   HeaderNameFromBytes(name)[1],
                                   HeaderValueParse(value)[1])
              /\ hAssigned' = Append(hAssigned, <<name, value>>)
              /\ UNCHANGED <<hOut, hPc, hErr>>
    /\ UNCHANGED <<routes, notFound, hFound, hPath, hRes, hJar, cWritten,
                   cRecv, cRead, hFailedBefore, nonHttpVars,
                   sideVars>>

\* res.cookies[name] = value (LuaCookies __newindex): a signed cookie for a
\* string, a removal cookie for nil (<<>>)
CookieAssign(name, value) ==
    /\ ScriptHandler
    /\ hJar' = IF value # <<>>
                THEN SignedAdd(hJar, MasterKey, name, value[1])
                ELSE JarAdd(hJar, name, RemovalCookie)
    /\ hJar' # hJar
    /\ cWritten' = [cWritten EXCEPT ![name] =
                      IF value # <<>> THEN [op |-> "set", v |-> value[1]]
                      ELSE [op |-> "del", v |-> 0]]
    /\ UNCHANGED <<routes, notFound, hPc, hFound, hPath, hRes, resHeaders, hAssigned,
                   cRecv, cRead, hOut, hFailedBefore, hErr, nonHttpVars,
                   sideVars>>

\* req.cookies[name] (LuaCookies __index): the signed view
CookieRead(name) ==
    /\ ScriptHandler
    /\ cRead' = [name |-> name, out |-> SignedGet(hJar, MasterKey, name)]
    /\ cRead' # cRead
    /\ UNCHANGED <<routes, notFound, hPc, hFound, hPath, hRes, resHeaders, hJar,
                   hAssigned, cWritten, cRecv, hOut, hFailedBefore, hErr,
                   nonHttpVars,
                   sideVars>>

\* handler.call_async returned Ok: LuaResponse::into_response
HandlerReturn ==
    /\ ScriptHandler
    /\ hOut' = IntoResponse(hRes, resHeaders, hJar)
    /\ hPc' = "sent"
    /\ UNCHANGED <<routes, notFound, hFound, hPath, hRes, resHeaders, hJar, hAssigned,
                   cWritten, cRecv, cRead, hFailedBefore, hErr, nonHttpVars,
                   sideVars>>

\* the handler raised err: LuaServeError::into_response
HandlerError(err) ==
    /\ ScriptHandler
    /\ hOut' = ErrorResponse(err)
    /\ hPc' = "sent"
    /\ hErr' = err
    /\ UNCHANGED <<routes, notFound, hFound, hPath, hRes, resHeaders, hJar,
                   hAssigned, cWritten, cRecv, cRead, hFailedBefore,
                   nonHttpVars,
                   sideVars>>

\* the response is written and the locals of handle_request are dropped
HttpSent ==
    /\ hPc = "sent"
    /\ hPc' = "idle"
    /\ hFound' = NoFound
    /\ hRes' = NewResponse
    /\ resHeaders' = EmptyHeaders
    /\ hJar' = EmptyJar
    /\ hAssigned' = <<>>
    /\ cWritten' = [n \in CookieNames |-> NoWrite]
    /\ cRecv' = [n \in CookieNames |-> "none"]
    /\ cRead' = NoRead
    /\ hOut' = NoOut
    /\ hPath' = <<>>
    /\ hErr' = 0
    /\ hFailedBefore' = (hFailedBefore \/ hErr # 0)
    /\ UNCHANGED <<routes, notFound, nonHttpVars,
                   sideVars>>

\* no request is being handled
InitRequest ==
    /\ hPc = "idle"
    /\ hFound = NoFound
    /\ hRes = NewResponse
    /\ resHeaders = EmptyHeaders
    /\ hJar = EmptyJar
    /\ hAssigned = <<>>
    /\ cWritten = [n \in CookieNames |-> NoWrite]
    /\ cRecv = [n \in CookieNames |-> "none"]
    /\ cRead = NoRead
    /\ hOut = NoOut
    /\ hPath = <<>>
    /\ hErr = 0
    /\ hFailedBefore = FALSE

\* Routes::new and no request
InitHttp ==
    /\ routes = {}
    /\ notFound = "default"
    /\ InitRequest
    /\ InitSide

(***************************************************************************)
(* The runtime: one program that calls start and serves.                   *)
(***************************************************************************)
InitRuntimeOf(callers) ==
    /\ lua = NoLua
    /\ services = NoServices
    /\ started = FALSE
    /\ startPc = [c \in callers |-> "idle"]
    /\ startEntry = [c \in callers |-> FALSE]
    /\ startReload = [c \in callers |-> FALSE]
    /\ startBuild = [c \in callers |-> NoLua]
    /\ startRes = [c \in callers |-> "none"]
    /\ serving = FALSE
    /\ cancelled = FALSE
    /\ exited = FALSE
    /\ spawned = [watcher |-> 0, shutdown |-> 0]
    /\ shutdownPc = "none"
    /\ shutLua = NoLua
    /\ reloadPc = "none"
    /\ reloadTodo = <<>>
    /\ reloadBuild = NoLua
    /\ reloadLog = "none"
    /\ tmplCache = FALSE
    /\ reqPc = [r \in Requests |-> "idle"]
    /\ reqLua = [r \in Requests |-> NoLua]
    /\ reqStatus = [r \in Requests |-> 0]
    /\ reqBody = [r \in Requests |-> 0]

\* the commands serve, shell and run call start once
InitRuntime == InitRuntimeOf({1})

\* Watch::new: an empty map, empty channels, nothing watched yet
InitDetector ==
    /\ dirty = [f \in Files |-> FALSE]
    /\ checksums = <<>>
    /\ fsEvents = {}
    /\ detOutbox = {}
    /\ chan = <<>>

\* a project that is the script app.lua
Init ==
    /\ InitRuntime
    /\ InitDetector
    /\ InitGlobal
    /\ InitHttp
    /\ fileContent = [f \in {AppFile} |-> 1]
    /\ detPc = "off"

\* a step of the runtime: the process has not exited; the history of the
\* detector and the global store are not part of it
RuntimeStep ==
    /\ ~exited
    /\ UNCHANGED <<dirty, globalVars, pairsVars, httpVars>>

\* the steps of the program and of its environment; the project is edited
\* while it is watched
Next ==
    \/ \E c \in Callers, reload \in BOOLEAN :
          StartCall(c, reload) /\ RuntimeStep
    \/ \E c \in Callers : StartServicesOpen(c) /\ RuntimeStep
    \/ \E c \in Callers : StartServicesSchema(c) /\ RuntimeStep
    \/ \E c \in Callers : StartWatcher(c) /\ RuntimeStep
    \/ \E c \in Callers : StartNewLuaCreate(c) /\ RuntimeStep
    \/ \E c \in Callers : StartNewLuaStep(c) /\ RuntimeStep
    \/ \E c \in Callers : StartSetLua(c) /\ RuntimeStep
    \/ \E c \in Callers : StartFlip(c) /\ RuntimeStep
    \/ \E c \in Callers : StartFail(c) /\ RuntimeStep
    \/ \E c \in Callers : StartReturn(c) /\ RuntimeStep
    \/ ServeSpawn /\ RuntimeStep
    \/ Cancel /\ RuntimeStep
    \/ MainExit /\ RuntimeStep
    \/ ShutdownRead /\ RuntimeStep
    \/ ShutdownCall /\ RuntimeStep
    \/ \E f \in Project, c \in Contents :
          Registered /\ FileWrite(f, c) /\ RuntimeStep
    \/ DetectorWatch /\ RuntimeStep
    \/ \E batch \in SUBSET Project : DetectorHandle(batch) /\ RuntimeStep
    \/ DetectorSend /\ RuntimeStep
    \/ ReloadRecv /\ RuntimeStep
    \/ ReloadRecvClosed /\ RuntimeStep
    \/ ReloadNewLuaCreate /\ RuntimeStep
    \/ ReloadNewLuaStep /\ RuntimeStep
    \/ ReloadSetLua /\ RuntimeStep
    \/ ReloadFail /\ RuntimeStep
    \/ \E r \in Requests : ReqStart(r) /\ RuntimeStep
    \/ \E r \in Requests : ReqHandler(r) /\ RuntimeStep
    \/ \E r \in Requests : ReqFail(r) /\ RuntimeStep
    \/ \E r \in Requests : ReqRespond(r) /\ RuntimeStep

Spec == Init /\ [][Next]_vars

\* a project with the script and a template
InitTemplates ==
    /\ InitRuntime
    /\ InitDetector
    /\ InitGlobal
    /\ InitHttp
    /\ fileContent = [f \in Files |-> 1]
    /\ detPc = "off"

\* the steps of such a project: those of Next, the "templates" arm of the
\* reload task, and a handler that renders
NextTemplates ==
    \/ Next
    \/ ReloadTemplates /\ RuntimeStep
    \/ \E r \in Requests : ReqRender(r) /\ RuntimeStep

SpecTemplates == InitTemplates /\ [][NextTemplates]_vars

(***************************************************************************)
(* Two tasks that call start on clones of one Runtime: the clones share    *)
(* the slots and the latch.                                                *)
(***************************************************************************)
InitConcurrent ==
    /\ InitRuntimeOf({1, 2})
    /\ InitDetector
    /\ InitGlobal
    /\ InitHttp
    /\ fileContent = [f \in {AppFile} |-> 1]
    /\ detPc = "off"

NextConcurrent ==
    \/ \E c \in Callers, reload \in BOOLEAN :
          StartCall(c, reload) /\ RuntimeStep
    \/ \E c \in Callers : StartServicesOpen(c) /\ RuntimeStep
    \/ \E c \in Callers : StartServicesSchema(c) /\ RuntimeStep
    \/ \E c \in Callers : StartWatcher(c) /\ RuntimeStep
    \/ \E c \in Callers : StartNewLuaCreate(c) /\ RuntimeStep
    \/ \E c \in Callers : StartNewLuaStep(c) /\ RuntimeStep
    \/ \E c \in Callers : StartSetLua(c) /\ RuntimeStep
    \/ \E c \in Callers : StartFlip(c) /\ RuntimeStep
    \/ \E c \in Callers : StartFail(c) /\ RuntimeStep
    \/ \E c \in Callers : StartReturn(c) /\ RuntimeStep

SpecConcurrent == InitConcurrent /\ [][NextConcurrent]_vars

(***************************************************************************)
(* A start with reload whose script is edited once, from 1 to 2, while     *)
(* the first VM is built: the content 2 is the newer source.  One edit is   *)
(* one notification, so the detector never finds the channel full.         *)
(***************************************************************************)
NewerSource == MaxContent

NextRace ==
    \/ \E c \in Callers : StartCall(c, TRUE) /\ RuntimeStep
    \/ \E c \in Callers : StartServicesOpen(c) /\ RuntimeStep
    \/ \E c \in Callers : StartServicesSchema(c) /\ RuntimeStep
    \/ \E c \in Callers : StartWatcher(c) /\ RuntimeStep
    \/ \E c \in Callers : StartNewLuaCreate(c) /\ RuntimeStep
    \/ \E c \in Callers : StartNewLuaStep(c) /\ RuntimeStep
    \/ \E c \in Callers : StartSetLua(c) /\ RuntimeStep
    \/ \E c \in Callers : StartFlip(c) /\ RuntimeStep
    \/ \E c \in Callers : StartFail(c) /\ RuntimeStep
    \/ \E c \in Callers : StartReturn(c) /\ RuntimeStep
    \/ /\ Registered
       /\ fileContent[AppFile] # NewerSource
       /\ FileWrite(AppFile, NewerSource)
       /\ RuntimeStep
    \/ DetectorWatch /\ RuntimeStep
    \/ \E batch \in SUBSET Project : DetectorHandle(batch) /\ RuntimeStep
    \/ ReloadRecv /\ RuntimeStep
    \/ ReloadNewLuaCreate /\ RuntimeStep
    \/ ReloadNewLuaStep /\ RuntimeStep
    \/ ReloadSetLua /\ RuntimeStep
    \/ ReloadFail /\ RuntimeStep

SpecRace == Init /\ [][NextRace]_vars

(***************************************************************************)
(* Properties of the runtime, checked under Spec.                          *)
(***************************************************************************)
\* C1: a handler that is running keeps the VM handle it took when its
\* request started, whatever happens to the slot meanwhile, and the
\* response it completes with is the one that VM's source writes; a
\* request that starts takes the VM that is in the slot at that moment,
\* which after a replacement is the new one.
C1_HandlerKeepsItsVm ==
    [][\A r \in Requests :
          /\ (reqPc[r] = "handler" /\ reqPc'[r] \in {"handler", "done"})
                => reqLua'[r] = reqLua[r]
          /\ (reqPc[r] = "handler" /\ reqPc'[r] = "done"
                /\ reqStatus'[r] = 200)
                => reqBody'[r] = reqLua[r].src
          /\ (reqPc[r] = "idle" /\ reqPc'[r] # "idle")
                => reqLua'[r] = lua' /\ lua' = lua]_vars

\* C1: a handler has completed on the VM of its request although the slot
\* was given a VM of other source while it ran.
C1_Witness ==
    \E r \in Requests :
        /\ reqPc[r] = "done"
        /\ reqStatus[r] = 200
        /\ lua # NoLua
        /\ reqLua[r].src # lua.src
        /\ reqBody[r] = reqLua[r].src

\* the step on which the reload task gives up a rebuild that failed
C2_FailStep ==
    /\ reloadPc = "runtime"
    /\ reloadPc' # "runtime"
    /\ reloadBuild.stage # StageRequired

\* C2: when the rebuild after a "runtime" notification fails, the slot is
\* left as it was, the error is logged, and the reload task goes on with
\* its loop: it ends only after cancellation, so later notifications are
\* still received, and requests still find the VM installed before.
C2_FailedRebuildKeepsVm ==
    [][/\ C2_FailStep =>
            /\ lua' = lua
            /\ reloadLog' = "err"
            /\ reloadPc' \in {"recv", "templates"}
       /\ reloadPc' = "done" => cancelled']_vars

\* C2: a rebuild has failed, the VM installed before is still in the slot
\* and has answered a request, and the reload task is handling a later
\* notification.
C2_Witness ==
    /\ reloadLog = "err"
    /\ reloadPc = "runtime"
    /\ reloadBuild # NoLua
    /\ lua # NoLua
    /\ \E r \in Requests :
          reqPc[r] = "done" /\ reqStatus[r] = 200 /\ reqLua[r] = lua

\* C3: the VM in the slot, and every handle a reader took out of the slot
\* (a request, the shutdown task), has run new_lua to its end: there is no
\* state in which the slot or a reader holds a VM that is still being
\* initialised or whose initialisation failed.
C3_SlotVmInitialised ==
    /\ lua.stage \in {"absent", StageRequired}
    /\ shutLua.stage \in {"absent", StageRequired}
    /\ \A r \in Requests : reqLua[r].stage \in {"absent", StageRequired}

\* C3: a rebuild is between two awaits of new_lua while the slot holds a
\* VM and a request has taken it.
C3_Witness ==
    /\ reloadBuild.stage \in {StageCreated, StagePrelude, StageCookie}
    /\ lua # NoLua
    /\ \E r \in Requests : reqPc[r] = "handler" /\ reqLua[r] # NoLua

\* C4: whenever the latch is set, Services and the VM slot are populated;
\* the latch is never cleared, so this lasts through every reload and
\* through shutdown.
C4_StartedKeepsSlots ==
    [][/\ started' => (services' # NoServices /\ lua' # NoLua)
       /\ started => started']_vars

\* C4: the latch is set, a rebuild has failed, a VM of changed source was
\* installed by a reload, and Runtime::shutdown has run.
C4_Witness ==
    /\ started
    /\ reloadLog = "err"
    /\ lua.src # 1
    /\ shutdownPc = "done"

\* C5: a call of start that finds the latch set returns Ok and changes
\* nothing: Services and the VM slot are as before, no VM is being built,
\* no watcher, reload task or shutdown task is started.
C5_StartIdempotent ==
    [][\A c \in Callers :
          (startPc[c] = "idle" /\ startPc'[c] # "idle" /\ started)
            => /\ startPc'[c] = "ret"
               /\ startRes'[c] = "ok"
               /\ startBuild'[c] = NoLua
               /\ UNCHANGED <<lua, services, started, spawned, shutdownPc,
                              reloadPc, detPc>>]_vars

\* C5: a call of start that was made after an earlier one had completed
\* has returned.
C5_Witness ==
    \E c \in Callers :
        /\ startEntry[c]
        /\ startPc[c] = "ret"
        /\ startRes[c] = "ok"
        /\ spawned = [watcher |-> 1, shutdown |-> 1]

\* nothing of the reload pipeline is pending: no event waits for the
\* debouncer, the channel is empty and the reload task waits in recv
C7_PipelineIdle ==
    /\ started
    /\ ~cancelled
    /\ detPc = "watching"
    /\ fsEvents = {}
    /\ chan = <<>>
    /\ reloadPc = "recv"
    /\ \A c \in Callers : startPc[c] = "idle"

\* the start has completed on the source that is on disk now: a request
\* was served from it
C7_ServedFromDisk ==
    \E r \in Requests :
        /\ reqPc[r] = "done"
        /\ reqStatus[r] = 200
        /\ reqBody[r] = fileContent[AppFile]

\* C7: with reload enabled and the start completed, once every change of
\* app.lua has been processed and the last rebuild did not fail, the slot
\* holds a VM built from the source as it is on disk, so that a request
\* that starts then is served by it.
C7_ChangedSourceInstalled ==
    (C7_PipelineIdle /\ C7_ServedFromDisk /\ reloadLog # "err")
        => lua.src = fileContent[AppFile]

(***************************************************************************)
(* The detector of watch.rs alone: a root is watched, files are written,   *)
(* a receiver takes the batches, the Watch is dropped.                     *)
(***************************************************************************)
\* changed_rx.recv(): a receiver takes one batch off the channel
ChangedRecv ==
    /\ chan # <<>>
    /\ chan' = Tail(chan)
    /\ UNCHANGED <<runtimeVars, fsVars, checksums, fsEvents, detPc,
                   detOutbox>>

\* the Watch is dropped: the actor's loop ends and the debouncer with it
WatchDrop ==
    /\ detPc \in {"msg", "watching", "sending"}
    /\ DetectorStop
    /\ UNCHANGED <<runtimeVars, fsVars>>

\* the detector reads the file on this step: when the map is seeded, and
\* when a batch that holds the file is handled
DetectorReads(f) ==
    \/ detPc = "msg" /\ detPc' = "watching"
    \/ detPc = "watching" /\ f \in fsEvents /\ f \notin fsEvents'

\* history: a file is dirty from a write of other bytes until the detector
\* next reads it
DirtyTrack ==
    dirty' = [f \in Files |->
                IF DetectorReads(f) THEN FALSE
                ELSE IF fileContent'[f] # fileContent[f] THEN TRUE
                ELSE dirty[f]]

WatchStep ==
    /\ DirtyTrack
    /\ UNCHANGED <<globalVars, pairsVars, httpVars>>

InitWatch ==
    /\ InitRuntime
    /\ InitDetector
    /\ InitGlobal
    /\ InitHttp
    /\ fileContent \in [Files -> Contents]
    /\ detPc = "msg"

NextWatch ==
    \/ \E f \in Project, c \in Contents : FileWrite(f, c) /\ WatchStep
    \/ DetectorWatch /\ WatchStep
    \/ \E batch \in SUBSET Project : DetectorHandle(batch) /\ WatchStep
    \/ DetectorSend /\ WatchStep
    \/ ChangedRecv /\ WatchStep
    \/ WatchDrop /\ WatchStep

SpecWatch == InitWatch /\ [][NextWatch]_vars

\* the channel after a receive
C28_Received == IF chan = <<>> THEN chan ELSE Tail(chan)

\* the batch the detector handles on this step
C28_Batch == fsEvents \ fsEvents'

\* C28: the channel never holds more than its capacity.  A notification
\* made while it is full is kept by the detector, which handles no batch
\* and keeps that notification as it is while it waits; it can send as
\* soon as the channel has room, and then puts that notification at the
\* back of the channel.  The channel changes only by a receive at its
\* front or by the detector's notification at its back, so nothing is
\* dropped, doubled or reordered.  (Steps that drop the Watch aside.)
C28_FullChannelBlocks ==
    /\ [](/\ Len(chan) <= ChanCap
          /\ detPc = "sending" =>
                /\ detOutbox # {}
                /\ Len(chan) < ChanCap <=> ENABLED DetectorSend
                /\ ~ENABLED (\E batch \in SUBSET Project :
                                DetectorHandle(batch)))
    /\ [][detPc' # "stopped" =>
            /\ detPc = "sending" =>
                  /\ checksums' = checksums
                  /\ fsEvents \subseteq fsEvents'
                  /\ IF detPc' = "sending"
                       THEN detOutbox' = detOutbox /\ chan' \in {chan, C28_Received}
                       ELSE chan' = Append(chan, detOutbox)
            /\ (detPc = "watching" /\ C28_Batch # {}) =>
                  IF Changed(C28_Batch) = {}
                    THEN chan' = chan /\ detPc' = "watching"
                    ELSE \/ /\ chan' = Append(chan, Changed(C28_Batch))
                            /\ detPc' = "watching"
                         \/ /\ Len(chan) = ChanCap
                            /\ chan' = chan
                            /\ detPc' = "sending"
                            /\ detOutbox' = Changed(C28_Batch)
            /\ (detPc = "watching" /\ C28_Batch = {}) =>
                  chan' \in {chan, C28_Received}]_vars

\* C28: the channel is full and the detector waits with another
\* notification.
C28_Witness ==
    /\ detPc = "sending"
    /\ Len(chan) = ChanCap
    /\ detOutbox # {}
    /\ fsEvents # {}

\* the detector puts the path into a notification on this step
C6_Emits(f) ==
    /\ detPc = "watching"
    /\ f \in fsEvents
    /\ f \notin fsEvents'
    /\ \/ Len(chan') > Len(chan) /\ f \in chan'[Len(chan')]
       \/ detPc' = "sending" /\ f \in detOutbox'

\* C6: the detector puts a path into a notification only if the file was
\* written with other bytes since the detector last read it; rewriting a
\* file with the bytes it has, however often and whatever changes came
\* before, makes no notification.
C6_NoOpWriteIsSilent ==
    [][\A f \in Files : C6_Emits(f) => dirty[f]]_vars

(***************************************************************************)
(* The global store driven by one script.                                  *)
(***************************************************************************)
\* the script does not iterate
GlobalStep == UNCHANGED <<pairsVars, httpVars>>

NextGlobal ==
    \/ GlobalStep /\ GlobalIndex
    \/ \E value \in LuaValues \cup {Nil} : GlobalStep /\ GlobalNewIndex(value)
    \/ \E key \in LuaKeys, value \in LuaValues \cup {Nil} :
          GlobalStep /\ GlobalTableNewIndex(key, value)
    \/ \E key \in LuaKeys : GlobalStep /\ GlobalTableIndex(key)
    \/ GlobalStep /\ GlobalTableLenOp
    \/ GlobalStep /\ ScriptNext

SpecGlobal == Init /\ [][NextGlobal]_vars

\* C8: whenever the script reads t[k] and the last assignment to k since
\* the table was created stored a non-nil value v, the read succeeds and
\* returns a value equal to v.
C8_RoundTrip ==
    (gRet.op = "get" /\ gWritten[gRet.key] \notin {Nil, Unassigned})
        => (gRet.status = "ok" /\ gRet.out = gWritten[gRet.key])

\* C8: the script has read back false under the string key "1" while the
\* integer key 1 holds another value.
C8_Witness ==
    /\ gRet.op = "get"
    /\ gRet.status = "ok"
    /\ gRet.key = LuaString(1)
    /\ gRet.out = LuaBoolean(0)
    /\ gWritten[LuaInteger(1)] \in LuaValues \ {LuaBoolean(0)}

\* C9: on a table that exists, t[k] = nil succeeds, leaves no row for k
\* and leaves every other row as it was, so that nothing changes when k
\* was absent; and reading a key whose last assignment was nil returns
\* nil.
C9_DelThenNil ==
    [][/\ (gPc = "idle" /\ gPc' = "ret" /\ gRet'.op = "del" /\ gExists)
            => /\ gRet'.status = "ok"
               /\ \A row \in gRows' :
                     /\ row.key_int # <<gRet'.key.v>> \/ gRet'.key.t # "integer"
                     /\ row.key_str # <<gRet'.key.v>> \/ gRet'.key.t # "string"
               /\ gRows' \subseteq gRows
               /\ \A row \in gRows \ gRows' :
                     IF gRet'.key.t = "integer"
                       THEN row.key_int = <<gRet'.key.v>>
                       ELSE row.key_str = <<gRet'.key.v>>
               /\ gWritten[gRet'.key] \in {Nil, Unassigned} => gRows' = gRows
       /\ (gPc = "idle" /\ gPc' = "ret" /\ gRet'.op = "get"
             /\ gWritten[gRet'.key] = Nil)
            => (gRet'.status = "ok" /\ gRet'.out = Nil)]_vars

\* C9: the script has read nil from a key it had assigned nil to, in a
\* table that holds other rows.
C9_Witness ==
    /\ gRet.op = "get"
    /\ gRet.status = "ok"
    /\ gRet.out = Nil
    /\ gWritten[gRet.key] = Nil
    /\ gRows # {}

\* the largest integer key of the rows, 0 when there is none
C10_MaxIntKey(rows) ==
    LET ints == {row.key_int[1] : row \in {q \in rows : q.key_int # <<>>}}
    IN  IF ints = {} THEN 0 ELSE CHOOSE i \in ints : \A j \in ints : j <= i

\* C10: #t on a table that exists returns the largest integer key among
\* its rows, and 0 when the table is empty.
C10_LenIsMaxIntKey ==
    (gRet.op = "len" /\ gExists)
        => /\ gRet.status = "ok"
           /\ gRet.out = LuaInteger(C10_MaxIntKey(gRows))

(***************************************************************************)
(* The global store with an iterator: the script's statements wait while   *)
(* the database thread is inside the closure of pairs, and the loop that   *)
(* drains the iterator runs no statement on the store.                     *)
(***************************************************************************)
NextPairs ==
    \/ DbIdle /\ NextGlobal
    \/ PairsCall
    \/ PairsQuery
    \/ \E row \in pTodo : PairsSend(row)
    \/ PairsPull
    \/ PairsDone

SpecPairs == Init /\ [][NextPairs]_vars

\* the pair a script expects for a stored row: the key with the type of its
\* column, and the value that was stored
C11_Pair(row) ==
    [key |-> IF row.key_int # <<>>
               THEN LuaInteger(row.key_int[1])
               ELSE LuaString(row.key_str[1]),
     value |-> CHOOSE v \in LuaValues : ToVec(v) = row.value]

\* C11: every pull that returns a pair returns one that was not returned
\* before, and when a pull has returned nil the pairs returned are exactly
\* one per row the table held when the query ran, integer keys as integers
\* and string keys as strings.
C11_PairsEachRowOnce ==
    /\ pPulls = Cardinality(pGot)
    /\ pEnd => /\ pGot = {C11_Pair(row) : row \in pSnap}
               /\ pPulls = Cardinality(pSnap)

\* C11: an iteration has ended over a table that held a row under the
\* integer key 1 and a row under the string key "1".
C11_Witness ==
    /\ pEnd
    /\ \E row \in pSnap : row.key_int = <<1>>
    /\ \E row \in pSnap : row.key_str = <<1>>

\* C12: `global.t = nil` succeeds and leaves no table and no rows, so that a
\* table created again under the name is empty; `global.t = v` with a
\* non-nil v fails and changes neither the table nor its rows.
C12_NamespaceAssign ==
    [][(gPc = "idle" /\ gPc' = "ret" /\ gRet'.op = "destroy")
          => IF gRet'.arg = Nil
               THEN gRet'.status = "ok" /\ ~gExists' /\ gRows' = {}
               ELSE gRet'.status = "err" /\ gExists' = gExists
                    /\ gRows' = gRows]_vars

\* C12: `global.t = nil` has dropped a table the script had created and
\* still holds a handle to.
C12_Witness ==
    /\ gRet.op = "destroy"
    /\ gRet.arg = Nil
    /\ gRet.status = "ok"
    /\ ~gExists
    /\ gHandle

\* C13: t[k] on a handle whose table does not exist returns nil without an
\* error.
C13_MissingTableGetIsNone ==
    (gRet.op = "get" /\ ~gExists) => (gRet.status = "ok" /\ gRet.out = Nil)

(***************************************************************************)
(* The route table and the serve loop: the script registers routes, and    *)
(* requests are looked up, handled and answered one after the other.       *)
(***************************************************************************)
NoCookies == [n \in CookieNames |-> "none"]

NextRoutes ==
    \/ \E key \in RouteKeys : RoutesNewIndex(key)
    \/ RoutesSetNotFound
    \/ \E path \in Paths, bad \in BOOLEAN : HttpArrive(path, NoCookies, bad)
    \/ HandlerNotFound
    \/ \E status \in {200, 404} : HandlerSetStatus(status)
    \/ \E b \in Bodies : HandlerSetBody(BodyString(b))
    \/ HandlerReturn
    \/ \E err \in LuaErrors : HandlerError(err)
    \/ HttpSent

SpecRoutes == Init /\ [][NextRoutes]_vars

\* C14: the route table never holds a key that does not start with '/'
\* (an insert of such a key fails and leaves the table as it was).
C14_OnlySlashKeys == \A key \in routes : StartsWithSlash(key)

\* C15: while a request is handled, what the lookup returned is: when a
\* registered pattern matches the path, the handler registered for a
\* matching pattern, that pattern as the route and its captures as the
\* parameters, the pattern equal to the path when there is one; when none
\* matches, the not_found handler, no route and no parameters.  And the
\* response of the default not_found handler has the status 404.
C15_Lookup ==
    hPc \in {"handler", "sent"} =>
        /\ IF \E key \in routes : PathMatches(key, hPath)
             THEN /\ hFound.handler \in routes
                  /\ PathMatches(hFound.handler, hPath)
                  /\ hPath \in routes => hFound.handler = hPath
                  /\ hFound.route = <<hFound.handler>>
                  /\ hFound.params = PathParams(hFound.handler, hPath)
             ELSE /\ hFound.handler = NotFoundHandler
                  /\ hFound.route = <<>>
                  /\ hFound.params = {}
        /\ (hPc = "sent" /\ hErr = 0 /\ hFound.handler = NotFoundHandler
              /\ notFound = "default") => hOut.status = 404

\* C15: a request for / was answered 404 by the default not_found handler
\* while /a and /:id were registered.
C15_Witness ==
    /\ hPc = "sent"
    /\ hPath = <<"/">>
    /\ hFound.handler = NotFoundHandler
    /\ notFound = "default"
    /\ hOut.status = 404
    /\ <<"/", "a">> \in routes
    /\ <<"/", ":id">> \in routes

\* C16: when an error was raised while the request was translated or
\* handled, the response is a 500 whose body holds the text of that error;
\* and after a failed request the server takes the next request.
C16_ErrorIs500 ==
    /\ hErr # 0 =>
          /\ hPc = "sent"
          /\ hOut.status = 500
          /\ hOut.body.v = hErr
          /\ hOut.body.t = "error in lua serve function: lua error: "
    /\ (hFailedBefore /\ hPc = "idle") =>
          ENABLED (\E path \in Paths : HttpArrive(path, NoCookies, FALSE))

\* C16: a handler has failed with a script error in a request that came
\* after one that failed.
C16_Witness ==
    /\ hFailedBefore
    /\ hPc = "sent"
    /\ hErr \in LuaErrors
    /\ hOut.status = 500

(***************************************************************************)
(* A loaded application: app.lua has registered a handler for "/".         *)
(***************************************************************************)
InitApp ==
    /\ InitRuntime
    /\ InitDetector
    /\ InitGlobal
    /\ routes = {<<"/">>}
    /\ notFound = "default"
    /\ InitRequest
    /\ InitSide
    /\ fileContent = [f \in {AppFile} |-> 1]
    /\ detPc = "off"

\* the handler writes headers
NextHeaders ==
    \/ \E path \in Paths, bad \in BOOLEAN : HttpArrive(path, NoCookies, bad)
    \/ HandlerNotFound
    \/ \E name \in ScriptHeaderNames, value \in HeaderValues :
          HeaderAssign(name, value)
    \/ HandlerSetBody(BodyTable)
    \/ HandlerReturn
    \/ \E err \in LuaErrors : HandlerError(err)
    \/ HttpSent

SpecHeaders == InitApp /\ [][NextHeaders]_vars

\* the lower-case form of a header name
C17_Lower(name) == IF name = "X-A" THEN "x-a" ELSE name

\* the values assigned to a name, in the order of the assignments
C17_Assigned(name) ==
    LET own == SelectSeq(hAssigned, LAMBDA a : C17_Lower(a[1]) = name)
    IN  [i \in 1..Len(own) |-> own[i][2]]

\* C17: the response translated from the handler's response table (the
\* handler returned without error and res.body is a string) holds, for
\* every header name, exactly the values the handler assigned to that name
\* on res.headers, one line per assignment in the order of the assignments.
C17_OneLinePerAssignment ==
    (hPc = "sent" /\ hErr = 0 /\ hRes.body.t = "string") =>
        \A name \in HeaderNames : hOut.headers[name] = C17_Assigned(name)

\* C17: the handler assigned two different values to one name, spelled in
\* two ways, and the response holds both in that order.
C17_Witness ==
    /\ hPc = "sent"
    /\ hErr = 0
    /\ hAssigned = <<(<<"X-A", 2>>), (<<"x-a", 1>>)>>
    /\ hOut.headers["x-a"] = <<2, 1>>

\* the handler works on the cookie jar
NextCookies ==
    \/ \E path \in Paths, recv \in [CookieNames -> RecvKinds] :
          HttpArrive(path, recv, FALSE)
    \/ HandlerNotFound
    \/ \E name \in CookieNames, value \in {<<>>} \cup {<<v>> : v \in CookieValues} :
          CookieAssign(name, value)
    \/ \E name \in CookieNames : CookieRead(name)
    \/ HandlerReturn
    \/ \E err \in LuaErrors : HandlerError(err)
    \/ HttpSent

SpecCookies == InitApp /\ [][NextCookies]_vars

\* C18: the response translated from the handler's response table carries
\* one Set-Cookie for each cookie name the handler assigned (a value or
\* nil), and none for any other name.
C18_SetCookieIsDelta ==
    (hPc = "sent" /\ hErr = 0 /\ hRes.body.t = "string") =>
        /\ {line.name : line \in hOut.cookies}
              = {n \in CookieNames : cWritten[n].op # "none"}
        /\ \A l1, l2 \in hOut.cookies : l1.name = l2.name => l1 = l2

\* what a read of the name through the signed view is to return: the value
\* the handler wrote, nothing after a removal, and otherwise the value of a
\* cookie of the request that this program signed
C19_Expected(name) ==
    CASE cWritten[name].op = "set" -> <<cWritten[name].v>>
      [] cWritten[name].op = "del" -> <<>>
      [] OTHER -> IF cRecv[name] = "genuine" THEN <<1>> ELSE <<>>

\* C19: a read through the signed view returns the value last written
\* under the name through the signed view; a cookie of the request is read
\* with its value when it carries the signature of that value under the
\* master key, and reads as absent when its value or its signature was
\* modified or it was signed with another key.
C19_SignedRoundTrip ==
    [][(cRead' # cRead /\ cRead'.name \in CookieNames)
          => cRead'.out = C19_Expected(cRead'.name)]_vars

\* C19: the handler read nothing under a name whose cookie arrived with a
\* modified value, and the other name arrived with a genuine cookie.
C19_Witness ==
    /\ cRead.name = "sid"
    /\ cRead.out = <<>>
    /\ cRecv["sid"] = "tampered_value"
    /\ cRecv["lang"] = "genuine"
    /\ cWritten["sid"].op = "none"

(***************************************************************************)
(* The cookie key over reloads and runs.                                   *)
(***************************************************************************)
NextKeys ==
    \/ KeysRun
    \/ KeysRegister
    \/ KeysSetCookieKey
    \/ KeysSetLua
    \/ KeysServe
    \/ \E value \in {1, 2} : KeysSign(value)
    \/ KeysExit

SpecKeys == Init /\ [][NextKeys]_vars

\* C20: while the program serves, the cookie that a VM of the slot signed
\* for the client, before a reload or in an earlier run, verifies under
\* the key of the VM that is in the slot now: every VM installed in the
\* slot holds the same key.
C20_OneCookieKey ==
    (kPc = "serving" /\ kCookie # NoCookie) => SignedVerify(kSlot, kCookie)

(***************************************************************************)
(* The end of the process.                                                 *)
(***************************************************************************)
NextExit ==
    \/ ExitStartFail
    \/ \E reload \in BOOLEAN, hook \in BOOLEAN : ExitServe(reload, hook)
    \/ ExitCancel
    \/ ExitReloadBuild
    \/ \E hook \in BOOLEAN : ExitReloadSetLua(hook)
    \/ ExitReloadEnd
    \/ ExitServerEnd
    \/ \E outcome \in HookOutcomes : ExitShutdown(outcome)
    \/ ExitCommandWait
    \/ ExitMainCancelled
    \/ ExitMainTimeout

SpecExit == Init /\ [][NextExit]_vars

\* C21: after the token was cancelled the process terminates: when it can
\* take no further step, main has returned (with code 0, or with the error
\* of the timeout); it is never left waiting for a tracked task.
C21_ShutdownTerminates ==
    (sToken /\ ~ENABLED NextExit) => sMain \in Exits

\* C22 as stated: when the shutdown task has run, on_shutdown was invoked
\* once if the VM that was in the slot when the token was cancelled
\* defines it, and not at all if that VM does not.
C22_HookOfVmAtCancel ==
    sTasks["shutdown"] \in {"done", "stuck"}
        => sCalls = IF sCancelHook THEN 1 ELSE 0

\* the shutdown task runs in this step
C22_TaskRuns == sTasks["shutdown"] = "running" /\ sTasks'["shutdown"] # "running"

\* C22, amended: on_shutdown is invoked only by the shutdown task, only
\* after the token was cancelled and only once; it is invoked when the VM
\* that is in the slot when the task runs defines it, and when that VM
\* does not define it nothing is invoked and the task ends.
C22_HookOnceAfterToken ==
    [][/\ sCalls' # sCalls => (C22_TaskRuns /\ sToken /\ sCalls = 0)
       /\ (C22_TaskRuns /\ sSlotHook) => sCalls' = sCalls + 1
       /\ (C22_TaskRuns /\ ~sSlotHook) =>
             (sCalls' = sCalls /\ sTasks'["shutdown"] = "done")]_vars

\* C22: on_shutdown was invoked once, in a VM that a reload installed
\* after the token was cancelled, while the VM of the slot at the
\* cancellation did not define it.
C22_Witness ==
    /\ sToken
    /\ sTasks["shutdown"] = "done"
    /\ sCalls = 1
    /\ ~sCancelHook

(***************************************************************************)
(* The database actor.                                                     *)
(***************************************************************************)
NextDatabase ==
    \/ \E fn \in Closures : DatabaseCall(fn)
    \/ DatabaseClose
    \/ \E closed \in BOOLEAN : EventLoop(closed)

SpecDatabase == Init /\ [][NextDatabase]_vars

\* the closures that have run
C23_Ran == {dbRun[i] : i \in DOMAIN dbRun}

\* C23: the closures run in the order they were sent, none is passed over,
\* each runs on the connection as all the closures sent before it and
\* none sent after it have left it, and the caller of each is given the
\* value of its own closure: the count that a succeeding closure has
\* reached, the closure's own error for a failing one.
C23_Serialised ==
    /\ \A i, j \in DOMAIN dbRun : i < j => dbRun[i] < dbRun[j]
    /\ \A id \in C23_Ran : \A j \in 1..id :
          dbFns[j] \in Closures => j \in C23_Ran
    /\ \A id \in C23_Ran :
          dbOut[id] =
             IF dbFns[id] = "ok"
               THEN [t |-> "ok",
                     v |-> Cardinality({j \in 1..id : dbFns[j] = "ok"})]
               ELSE [t |-> "err", v |-> ClosureError]

\* C23: three closures have run, a failing one between two that succeeded.
C23_Witness ==
    /\ Len(dbRun) = 3
    /\ dbFns[dbRun[1]] = "ok"
    /\ dbFns[dbRun[2]] = "err"
    /\ dbFns[dbRun[3]] = "ok"
    /\ dbOut[dbRun[3]].v = 2

\* C24: once the loop has ended after a Close that succeeded, every call
\* whose closure has not run was answered with 'connection closed', those
\* that were in the channel as those made afterwards; no caller is left
\* waiting, and no closure runs any more.
C24_ClosedIsAnswered ==
    /\ [](dbLoop = "stopped" =>
            \A id \in DOMAIN dbFns :
                /\ dbOut[id] # Pending
                /\ (dbFns[id] \in Closures /\ id \notin C23_Ran)
                      => dbOut[id] = ConnectionClosed)
    /\ [][dbLoop = "stopped" => (dbRun' = dbRun /\ dbCount' = dbCount)]_vars

\* C24: the loop has ended while a closure was in the channel, and another
\* call was made afterwards; both were answered 'connection closed'.
C24_Witness ==
    /\ dbLoop = "stopped"
    /\ Len(dbFns) = 3
    /\ dbFns[1] = "close"
    /\ dbFns[2] = "ok"
    /\ dbFns[3] = "err"
    /\ dbOut[2] = ConnectionClosed
    /\ dbOut[3] = ConnectionClosed
    /\ dbQueue = <<>>

(***************************************************************************)
(* The websocket of one connection.                                        *)
(***************************************************************************)
NextWs ==
    \/ \E item \in Frames \cup {ReadError} : WsArrive(item)
    \/ WsEnd
    \/ WsRecv
    \/ \E value \in WsValues, written \in BOOLEAN : WsSend(value, written)

SpecWs == Init /\ [][NextWs]_vars

\* C25: the i-th recv returned the i-th frame delivered, as a value of the
\* script and never nil; a recv beyond everything delivered returned nil,
\* and only with the stream ended; a send whose write failed raised an
\* error and wrote nothing.
C25_RecvInOrderSendRaises ==
    /\ [](\A i \in DOMAIN wsGot :
            IF i <= Len(wsArrived)
              THEN /\ wsArrived[i] # ReadError
                        => (/\ wsGot[i].data = wsArrived[i].d
                            /\ wsGot[i].t =
                                  IF wsArrived[i].k = "text" THEN "string"
                                                             ELSE "table"
                            /\ wsGot[i].t = "table"
                                  => wsGot[i].ty = wsArrived[i].k)
                   /\ wsGot[i] # WsNil
              ELSE wsGot[i] = WsNil /\ wsEnded)
    /\ [][\A value \in WsValues :
            (<<WsSend(value, FALSE)>>_vars)
               => (wsRet'.ret = WsRaised /\ wsOut' = wsOut)]_vars

\* C25: a text frame and a close frame were read in that order, a further
\* recv returned nil at the end of the stream.
C25_Witness ==
    /\ wsEnded
    /\ wsArrived = <<Frame("text", "a"), Frame("close", "")>>
    /\ wsGot = <<WsString("a"), WsTable("close", ""), WsNil>>

(***************************************************************************)
(* The file actor of one handle.                                           *)
(***************************************************************************)
NextFile ==
    \/ \E op \in FileOps : LuaFileCall(op)
    \/ \E id \in 1..MaxOps : LuaFileSend(id)
    \/ FileActor
    \/ LuaFileDrop
    \/ FileActorEnd

SpecFile == Init /\ [][NextFile]_vars

\* the operations handled
C26_Handled == {fDone[i] : i \in DOMAIN fDone}

\* C26: the operations are handled in the order they entered the channel;
\* one reply is sent for each operation handled and none for any other,
\* and the caller holds the value of its own operation on the file as the
\* operations before it left it; once Close has been handled the loop has
\* ended; an operation that was not handled and has returned, returned an
\* error; and when nothing more can happen no call is still waiting, and
\* the loop has ended if the handle was dropped.
C26_FileActor ==
    /\ \A i \in DOMAIN fDone : fDone[i] = fArrived[i]
    /\ \A id \in DOMAIN fOps :
          /\ fReplies[id] = IF id \in C26_Handled THEN 1 ELSE 0
          /\ id \in C26_Handled =>
                /\ fPc[id] = "returned"
                /\ fOut[id] =
                     IF fOps[id] = "write" THEN FileNil
                     ELSE IF fOps[id] = "close" THEN FileTrue
                     ELSE FileInteger(Cardinality(
                            {i \in DOMAIN fDone :
                                /\ fOps[fDone[i]] = "write"
                                /\ \E k \in DOMAIN fDone :
                                      i < k /\ fDone[k] = id}))
          /\ (id \in C26_Handled /\ fOps[id] = "close") => fLoop = "stopped"
          /\ (id \notin C26_Handled /\ fPc[id] = "returned")
                => (fOut[id] = FileError /\ fLoop = "stopped")
    /\ ~ENABLED NextFile =>
          /\ \A id \in DOMAIN fOps : fPc[id] = "returned"
          /\ fHandle = "dropped" => fLoop = "stopped"

\* C26: a write and a close were handled, an operation that waited for
\* room in the channel and one issued after the close returned errors.
C26_Witness ==
    /\ fOps = <<"write", "close", "seek", "seek">>
    /\ fDone = <<1, 2>>
    /\ fLoop = "stopped"
    /\ fOut = <<FileNil, FileTrue, FileError, FileError>>
    /\ fHandle = "dropped"

\* C26: the handle was dropped with no Close sent and the loop has ended.
C26_WitnessDrop ==
    /\ fHandle = "dropped"
    /\ fLoop = "stopped"
    /\ fOut = <<FileNil, FileInteger(1)>>

(***************************************************************************)
(* task.timeout.                                                           *)
(***************************************************************************)
NextTask ==
    \/ \E seconds \in 1..MaxSeconds : TaskTimeoutCall(seconds)
    \/ TaskClock
    \/ \E timerFirst, completes \in BOOLEAN, ran \in 0..MaxRan,
          wait \in 1..MaxWait :
          TaskTimeoutPoll(timerFirst, ran, completes, wait)

SpecTask == Init /\ [][NextTask]_vars

\* C27 as stated: the call ended with the timeout error if the limit had
\* elapsed before fn completed, and without it if fn completed first.
C27_ErrorIffLimitElapsed ==
    /\ tPc = "timeout" => tNow >= tDeadline
    /\ tPc = "returned" => tNow < tDeadline

\* C27, amended: the timeout error is returned only when the limit has
\* elapsed and fn has not completed; a poll that finds the limit elapsed
\* ends the call, with the timeout error unless fn could continue and
\* completed in that very poll; and a call that ends before the limit has
\* elapsed ends without the timeout error.
C27_TimeoutAtSuspension ==
    [][/\ tPc' = "timeout" => (tPc = "pending" /\ tNow' >= tDeadline)
       /\ \A timerFirst, completes \in BOOLEAN, ran \in 0..MaxRan,
             wait \in 1..MaxWait :
             (/\ tNow >= tDeadline
              /\ TaskTimeoutPoll(timerFirst, ran, completes, wait))
                => \/ tPc' = "timeout"
                   \/ tPc' = "returned" /\ completes /\ tNow >= tReady
       /\ (tPc = "pending" /\ tPc' # "pending" /\ tNow' < tDeadline)
             => tPc' = "returned"]_vars

\* C27: fn was suspended when the limit elapsed and the call has ended
\* with the timeout error.
C27_Witness ==
    /\ tPc = "timeout"
    /\ tReady > tNow
    /\ tNow = tDeadline

\* C27: fn completed within the limit and the call has returned.
C27_WitnessReturned ==
    /\ tPc = "returned"
    /\ 0 < tNow
    /\ tNow < tDeadline

(***************************************************************************)
(* The errors of start and of the reload task.                             *)
(***************************************************************************)
\* C29 as stated: whenever a start has failed the latch is false and the
\* slot is empty.
C29_FailedStartLeavesNothing ==
    \A c \in Callers : startRes[c] = "err" => (~started /\ lua = NoLua)

\* the reload task gives up a rebuild on this step
C29_ReloadFails ==
    /\ reloadPc = "runtime"
    /\ reloadPc' # "runtime"
    /\ ~NewLuaReturned(reloadBuild)

\* C29, amended: the step on which a start fails hands the error to the
\* caller and changes neither the latch nor the slot; a start that failed
\* before any watcher was started leaves the latch false and the slot
\* empty; and a rebuild that fails in the reload task is logged, reaches
\* no caller of start, leaves the slot alone and the task running.
C29_StartErrorsReturned ==
    /\ [](\A c \in Callers :
            (startRes[c] = "err" /\ spawned.watcher = 0)
               => (~started /\ lua = NoLua))
    /\ [][/\ \A c \in Callers :
               (startRes'[c] = "err" /\ startRes[c] # "err")
                  => /\ startPc[c] \notin {"idle", "ret", "flip"}
                     /\ startPc'[c] = "ret"
                     /\ started' = started
                     /\ lua' = lua
          /\ C29_ReloadFails
               => /\ reloadLog' = "err"
                  /\ startRes' = startRes
                  /\ lua' = lua
                  /\ reloadPc' \in {"recv", "templates"}]_vars

\* C29: the first build failed after the watcher was started; the error
\* is with the caller, the latch is false and the slot empty.
C29_Witness ==
    /\ startRes[1] = "err"
    /\ startPc[1] = "ret"
    /\ spawned.watcher = 1
    /\ ~started
    /\ lua = NoLua

(***************************************************************************)
(* The hash the detector keeps for a path.                                 *)
(***************************************************************************)
\* C30: on every step on which the detector handles a batch, the hash it
\* then holds for each path of the batch is the hash of the content it
\* has just read, whether the path went into a notification or not.
C30_StoredHashIsLastRead ==
    [][(detPc = "watching" /\ detPc' # "stopped") =>
          \A f \in fsEvents \ fsEvents' :
              checksums'[f] = Checksum(fileContent[f])]_vars

(***************************************************************************)
(* The life of the detector.                                               *)
(***************************************************************************)
\* a notification leaves handle_event_failable on this step, into the
\* channel or into the send that waits for room
C31_Emission ==
    \/ Len(chan') > Len(chan)
    \/ detOutbox' # {} /\ detOutbox' # detOutbox

\* C31: the detector goes from seeding to watching to stopped and never
\* back; on the step that registers the watcher the map gets, for every
\* file under the root, the hash of its content at that moment, and while
\* the watcher is registered every file has an entry; a notification is
\* made only by the registered detector, out of paths that have an entry,
\* and none once it has stopped.
C31_SeedWatchStop ==
    /\ [](Registered => \A f \in Project : f \in DOMAIN checksums)
    /\ [][/\ detPc # detPc' =>
               <<detPc, detPc'>> \in
                  {<<"msg", "watching">>, <<"msg", "stopped">>,
                   <<"watching", "sending">>, <<"sending", "watching">>,
                   <<"watching", "stopped">>, <<"sending", "stopped">>}
          /\ (detPc = "msg" /\ detPc' = "watching") =>
               \A f \in Project : checksums'[f] = Checksum(fileContent[f])
          /\ C31_Emission =>
               /\ Registered
               /\ detPc' # "stopped"
               /\ \A f \in Files :
                     C6_Emits(f) => f \in DOMAIN checksums
          /\ detPc = "msg" => (fsEvents' = {} /\ ~C31_Emission)]_vars

\* C31: the detector has stopped with a notification it had made still in
\* the channel.
C31_Witness ==
    /\ detPc = "stopped"
    /\ chan # <<>>
    /\ DOMAIN checksums = Project

(***************************************************************************)
(* Close on the database actor.                                            *)
(***************************************************************************)
\* the Close messages the loop has answered with an error
C32_Failed == {id \in DOMAIN dbFns : dbOut[id] = CloseError}

\* C32: the step on which a Close fails answers its caller with the error
\* and leaves the loop running, the connection as it was and the later
\* messages in the channel, so that a loop that is still running when
\* nothing more is sent has run every closure and answered every Close;
\* a Close is answered Ok only with the loop ended, and once the loop has
\* ended every Close that did not fail has been answered Ok, those sent
\* afterwards included.
C32_CloseFailsOrEnds ==
    /\ [](/\ \A id \in DOMAIN dbFns :
               /\ dbOut[id] = CloseOk => dbLoop = "stopped"
               /\ dbOut[id] \in {CloseOk, CloseError} => dbFns[id] = "close"
          /\ dbLoop = "stopped" =>
               \A id \in DOMAIN dbFns :
                  dbFns[id] = "close" => dbOut[id] \in {CloseOk, CloseError}
          /\ (dbLoop = "running" /\ dbQueue = <<>>) =>
               \A id \in DOMAIN dbFns :
                  IF dbFns[id] = "close" THEN id \in C32_Failed
                                         ELSE id \in C23_Ran)
    /\ [][\A id \in DOMAIN dbFns :
            (dbOut'[id] = CloseError /\ dbOut[id] # CloseError)
               => /\ dbLoop' = "running"
                  /\ dbCount' = dbCount
                  /\ dbQueue = <<id>> \o dbQueue']_vars

\* C32: a Close failed, a closure sent after it ran on the connection as
\* the closure before the Close had left it, and a second Close ended the
\* loop; a third Close, on the ended loop, returned Ok.
C32_Witness ==
    /\ dbFns = <<"ok", "close", "ok", "close", "close">>
    /\ dbOut[2] = CloseError
    /\ dbOut[3] = [t |-> "ok", v |-> 2]
    /\ dbOut[4] = CloseOk
    /\ dbOut[5] = CloseOk
    /\ dbRun = <<1, 3>>

(***************************************************************************)
(* Frames and the values of the script.                                    *)
(***************************************************************************)
\* C33: every frame a recv has handed to the script converts back to the
\* frame that arrived, and the table {type = "binary", data = d} converts
\* to the frame Binary(d) for every d.
C33_FrameRoundTrip ==
    /\ \A i \in DOMAIN wsGot :
          (i <= Len(wsArrived) /\ wsArrived[i] # ReadError)
             => MessageFromLua(wsGot[i]) = wsArrived[i]
    /\ \A i \in DOMAIN wsArrived :
          wsArrived[i] # ReadError =>
             MessageFromLua(WsTable("binary", wsArrived[i].d))
                = Frame("binary", wsArrived[i].d)

C35_StartRunsOnce ==
    /\ spawned.watcher <= 1
    /\ spawned.shutdown <= 1
    /\ Cardinality({c \in Callers : startBuild[c] # NoLua})
          + spawned.shutdown <= 1

(***************************************************************************)
(* A reload during the initial build.                                      *)
(***************************************************************************)
\* C36: when a "runtime" notification is handled while start builds the
\* first VM, a VM built from the older source never replaces one built
\* from the newer source, and once both builds have finished the slot
\* holds the VM built from the newer source.
C36_NewerVmStays ==
    /\ [][(lua # NoLua /\ lua.src = NewerSource)
             => lua'.src = NewerSource]_vars
    /\ []((/\ lua # NoLua
           /\ reloadLog = "ok"
           /\ reloadPc = "recv"
           /\ \A c \in Callers : startBuild[c] = NoLua /\ startRes[c] = "ok")
             => lua.src = NewerSource)

(***************************************************************************)
(* A pairs() iteration and the other calls of its consumer.                *)
(***************************************************************************)
SpecIter == Init /\ [][NextIter]_vars

\* C37: dropping the iterator of pairs() while rows remain does not stop
\* the database actor: its thread lives on, and every call on the database
\* issued afterwards is executed and answered, none is given
\* ConnectionClosed.
C37_DropKeepsActor ==
    iRx = "dropped" => (iDb = "running" /\ iCall # "closed")

\* C38: a call on the database that the consumer issues between two pulls
\* of a pairs() iteration completes, whatever the size of the table: the
\* consumer is never left waiting for the reply with the producer waiting
\* for the consumer.
C38_CallBetweenPullsCompletes ==
    ~(/\ iPulls > 0
      /\ iRx = "held"
      /\ iCall = "waiting"
      /\ ~ENABLED NextIter)

(***************************************************************************)
(* task.timeout and the error of its function.                             *)
(***************************************************************************)
\* C39: when the function passed to task.timeout raises an error before
\* the time limit, the call of task.timeout ends with that error and not
\* with success.
C39_FnErrorReturned ==
    (tFn = "err" /\ tNow < tDeadline) => tPc = "raised"

(***************************************************************************)
(* One websocket handle used by two script tasks.                          *)
(***************************************************************************)
SpecBorrow == Init /\ [][NextBorrow]_vars

\* C40: a send issued by one script task while a recv of another task is
\* pending on the same websocket handle is carried out without waiting for
\* the recv and raises no error.
C40_SendBesideRecv ==
    bRecv = "pending" => bSend # "error"

====
